---- MODULE Spec2Model ----
(***************************************************************************)
(* A model of the voker Lambda runtime: the invocation loop of Start /     *)
(* handleInvocation / callHandler / sendError (voker.go), the runtime API  *)
(* client (runtimeClient.next, invocation.success / failure, post) and the *)
(* error records of newErrorResponse / newPanicResponse; and, under a      *)
(* specification of its own (ExtSpec), the extension manager of            *)
(* extension.go: start, the event loops, shutdown.  LoopSpec follows the   *)
(* event loops with every kind of answer of the Extensions API, ProcSpec   *)
(* the whole process (Start with its manager), ClientSpec the runtime     *)
(* client alone, RecordSpec the making of the error records alone, and     *)
(* SignalSpec a process that is sent SIGTERM more than once.               *)
(*                                                                         *)
(* The main goroutine is followed from one blocking point to the next:     *)
(* the GET of the next invocation, the call of the user's handler, the     *)
(* POST of the report.  Everything the code does between two blocking      *)
(* points is one step.  The control plane and the handler are the          *)
(* environment: their answers are chosen from small sets.                  *)
(***************************************************************************)
EXTENDS Integers, Sequences, FiniteSets, TLC

VARIABLES
    runtimeAPI,     \* os.Getenv("AWS_LAMBDA_RUNTIME_API")
    options,        \* the options struct: enableTraceID, extensions (how many)
    pc,             \* where the main goroutine is
    sigpc,          \* where the SIGTERM goroutine of Start is
    done,           \* the done channel of Start is closed
    inv,            \* the invocation returned by client.next()
    lc,             \* the LambdaContext stored in the handler's context
    ctxDeadline,    \* the deadline of the handler's context
    ctxDone,        \* that deadline has passed: the context's Done is closed
    handlerInput,   \* the decoded input the handler was called with
    traceEnv,       \* the environment variable _X_AMZN_TRACE_ID
    active,         \* number of handler calls that have not returned
    post,           \* the POST request in flight
    errResp,        \* the ErrorResponse sendError is reporting
    passes,         \* number of handleInvocation calls so far
    given,          \* the kind of answer the last GET .../next got
    outcome,        \* what the handler did in the last pass
    exited,         \* the process has ended
    exitCode,       \* ... with this code
    log,            \* what happened so far, oldest first
    extensions,     \* extensionManager.extensions: which hooks each one has
    mgrpc,          \* where start() / shutdown() of the extension manager is
    mdone,          \* extensionManager.done is closed
    loop,           \* where the event loop of each extension is
    resultCh,       \* what the fetch of each event loop has put in resultCh
    onSIGTERM,      \* for each extension, where the call of its OnSIGTERM is
    hookCalls,      \* ... and how many times it was called
    hookDeadline,   \* ... and the deadline of the context it was called with
    shutdownCtx,    \* the deadline of the context shutdown() makes
    sigtermAt,      \* the time at which shutdown() was called
    now,            \* the time, in milliseconds
    events,         \* number of answers the Extensions API has given to fetches
    shutdownLog,    \* what shutdown() did so far, oldest first
    startLog,       \* what start() did so far, oldest first
    startErr,       \* the error start() has returned ("nil" for none)
    fetching,       \* for each event loop, its fetch goroutine waits in client.next
    onInvoke,       \* for each event loop, the call of OnInvoke it is in
    logged,         \* the last line the extension manager has logged
    resp,           \* the runtime client on its own: the response it was given
    returned,       \* ... and what its call returned
    made,           \* the error records on their own: the call that made one
    signals         \* number of SIGTERMs delivered to the process

vars == <<runtimeAPI, options, pc, sigpc, done, inv, lc, ctxDeadline, ctxDone, handlerInput,
          traceEnv, active, post, errResp, passes, given, outcome, exited, exitCode,
          log, extensions, mgrpc, mdone, loop, resultCh, onSIGTERM, hookCalls,
          hookDeadline, shutdownCtx, sigtermAt, now, events, shutdownLog, startLog,
          startErr, fetching, onInvoke, logged, resp, returned, made, signals>>

----------------------------------------------------------------------------
(* Bounds of the model *)

\* handleInvocation is called at most this many times
MaxPasses == 2

\* a captured stack trace has 1..MaxStack frames (the code allows up to 32)
MaxStack == 2

\* events the Extensions API delivers in all
MaxEvents == 2

\* steps of the clock
MaxTicks == 1

\* at most this many SIGTERMs are delivered to the process
MaxSignals == 2

----------------------------------------------------------------------------
(* Strings *)

HasPrefix(s, p) ==
    /\ Len(s) >= Len(p)
    /\ SubSeq(s, 1, Len(p)) = p

HasSuffix(s, p) ==
    /\ Len(s) >= Len(p)
    /\ SubSeq(s, Len(s) - Len(p) + 1, Len(s)) = p

\* strings.Contains
Contains(s, sub) ==
    \E i \in 1..(Len(s) - Len(sub) + 1) : SubSeq(s, i, i + Len(sub) - 1) = sub

Digits == {"0", "1", "2", "3", "4", "5", "6", "7", "8", "9"}

DigitVal(c) ==
    CASE c = "0" -> 0 [] c = "1" -> 1 [] c = "2" -> 2 [] c = "3" -> 3 [] c = "4" -> 4
      [] c = "5" -> 5 [] c = "6" -> 6 [] c = "7" -> 7 [] c = "8" -> 8 [] c = "9" -> 9

RECURSIVE DecimalVal(_)
DecimalVal(s) ==
    IF s = "" THEN 0
    ELSE 10 * DecimalVal(SubSeq(s, 1, Len(s) - 1)) + DigitVal(SubSeq(s, Len(s), Len(s)))

\* strconv.ParseInt(s, 10, 64): an optional sign, then one or more decimal
\* digits.  The strings of the model are short, so the value always fits.
ParseInt(s) ==
    LET signed == s # "" /\ SubSeq(s, 1, 1) \in {"+", "-"}
        digits == IF signed THEN SubSeq(s, 2, Len(s)) ELSE s
        syntax == /\ digits # ""
                  /\ \A i \in 1..Len(digits) : SubSeq(digits, i, i) \in Digits
    IN  IF ~syntax
        THEN [ok |-> FALSE, val |-> 0]
        ELSE [ok |-> TRUE,
              val |-> IF signed /\ SubSeq(s, 1, 1) = "-"
                      THEN 0 - DecimalVal(digits) ELSE DecimalVal(digits)]

----------------------------------------------------------------------------
(* encoding/json, for the types of the model *)

\* The handler of the model takes a testEvent {Name} and returns a testResponse
\* {Message}, or a value json.Marshal has no encoding for (a channel, a NaN).
EventPrefix == "{\"name\":\""

ResponsePrefix == "{\"message\":\""

ObjectSuffix == "\"}"

\* the text between prefix p and suffix q of s
Between(s, p, q) == SubSeq(s, Len(p) + 1, Len(s) - Len(q))

\* json.Unmarshal of an object with one string field, written with prefix p:
\* {} leaves the field empty; anything else that is not the object is an error.
UnmarshalField(s, p) ==
    IF s = "{}" \/ s = "null"
    THEN [ok |-> TRUE, val |-> ""]
    ELSE IF /\ Len(s) >= Len(p) + Len(ObjectSuffix)
            /\ HasPrefix(s, p)
            /\ HasSuffix(s, ObjectSuffix)
            /\ ~Contains(Between(s, p, ObjectSuffix), "\"")
         THEN [ok |-> TRUE, val |-> Between(s, p, ObjectSuffix)]
         ELSE [ok |-> FALSE, val |-> ""]

\* A decoding whose error is dropped: the input stays the zero value.
UnmarshalInputUnchecked(payload) == [ok |-> TRUE, val |-> ""]

\* json.Unmarshal(payload, &input) for TIn = testEvent
UnmarshalInput(payload) == UnmarshalField(payload, EventPrefix)

\* An encoding of a testResponse whose field has lost its json tag.
MarshalOutputUntagged(output) ==
    IF output.supported
    THEN [ok |-> TRUE, bytes |-> "{\"Message\":\"" \o output.Message \o ObjectSuffix]
    ELSE [ok |-> FALSE, bytes |-> ""]

\* json.Marshal(output) for TOut: a testResponse, or an unsupported value
MarshalOutput(output) ==
    IF output.supported
    THEN [ok |-> TRUE, bytes |-> ResponsePrefix \o output.Message \o ObjectSuffix]
    ELSE [ok |-> FALSE, bytes |-> ""]

CognitoPrefix == "{\"cognito_identity_id\":\""

ClientContextPrefix == "{\"custom\":\""

\* the text of the error json.Unmarshal / json.Marshal / strconv return
JSONSyntaxErrorText == "invalid character"

JSONUnsupportedText == "json: unsupported type"

ParseIntErrorText == "strconv.ParseInt: invalid syntax"

----------------------------------------------------------------------------
(* errors.go: the error records *)

\* A Go error or panic value, as far as the code looks at it: the name of its
\* dynamic type (name), whether the type is a pointer (ptr) and then the name
\* of the type pointed to (elem), the %T text of the type (tstr), its message
\* and, for a value that is itself an *ErrorResponse, its stack frames.
GoValue(name, ptr, elem, tstr, msg, frames) ==
    [name |-> name, ptr |-> ptr, elem |-> elem, tstr |-> tstr, msg |-> msg,
     frames |-> frames]

\* errors.New(msg): *errors.errorString
ErrorsNew(msg) == GoValue("", TRUE, "errorString", "*errors.errorString", msg, <<>>)

\* fmt.Errorf(prefix + ": %w", err): *fmt.wrapError
Errorf(prefix, text) ==
    GoValue("", TRUE, "wrapError", "*fmt.wrapError", prefix \o ": " \o text, <<>>)

\* the nil interface value: no dynamic type; %T and %v print it as <nil>
NilValue == GoValue("", FALSE, "", "<nil>", "<nil>", <<>>)

NoErrorResponse == [Type |-> "", Message |-> "", StackTrace |-> <<>>]

\* A getErrorType that looks at the name of the type only, not at the name of
\* the type a pointer points to.
getErrorTypeOfValue(err) ==
    IF err = NilValue
    THEN "Runtime.Unknown"
    ELSE IF err.name # "" /\ err.name # "errorString" /\ err.name # "errors"
                          /\ ~Contains(err.name, "wrap")
         THEN "Runtime." \o err.name
         ELSE "Runtime.HandlerError"

getErrorType(err) ==
    LET typeName == IF err.ptr THEN err.elem ELSE err.name
    IN  IF err = NilValue
        THEN "Runtime.Unknown"
        ELSE IF typeName # ""
             THEN IF typeName = "errorString" \/ typeName = "errors"
                  THEN "Runtime.HandlerError"
                  ELSE IF Contains(typeName, "wrap")
                       THEN "Runtime.HandlerError"
                       ELSE "Runtime." \o typeName
             ELSE "Runtime.HandlerError"

\* A record that takes over the stack frames of an error that is itself an
\* *ErrorResponse (as sendError's type assertion would, applied to it).
newErrorResponseKeepingFrames(err) ==
    [Type |-> getErrorType(err), Message |-> err.msg, StackTrace |-> err.frames]

newErrorResponse(err) ==
    [Type |-> getErrorType(err), Message |-> err.msg, StackTrace |-> <<>>]

\* strings.LastIndex(s, "."), 0 when there is none
LastDot(s) ==
    LET at == {i \in 1..Len(s) : SubSeq(s, i, i) = "."}
    IN  IF at = {} THEN 0 ELSE CHOOSE i \in at : \A j \in at : j <= i

\* A getPanicType that tags every value without a type name Runtime.Panic.
getPanicTypeNamedOnly(panicValue) ==
    LET typeName == IF panicValue.ptr /\ panicValue.elem # ""
                    THEN panicValue.elem ELSE panicValue.name
    IN  IF panicValue # NilValue /\ typeName # ""
        THEN "Runtime.Panic." \o typeName
        ELSE "Runtime.Panic"

getPanicType(panicValue) ==
    LET typeName == IF panicValue.ptr /\ panicValue.elem # ""
                    THEN panicValue.elem ELSE panicValue.name
        typeStr  == SubSeq(panicValue.tstr, LastDot(panicValue.tstr) + 1,
                           Len(panicValue.tstr))
    IN  IF panicValue = NilValue
        THEN "Runtime.Panic"
        ELSE IF typeName # ""
             THEN "Runtime.Panic." \o typeName
             ELSE IF typeStr # ""
                  THEN "Runtime.Panic." \o typeStr
                  ELSE "Runtime.Panic"

\* One formatted stack frame; the frames runtime.Callers can return while the
\* deferred recover of callHandler runs: the panicking goroutine's stack under
\* the four skipped frames, which holds at least callHandler and its callers.
StackFrame == "handler"

captureStackTrace ==
    {[i \in 1..n |-> StackFrame] : n \in 1..MaxStack}

newPanicResponse(panicValue, stack) ==
    [Type |-> getPanicType(panicValue), Message |-> panicValue.msg,
     StackTrace |-> stack]

RECURSIVE JoinFrames(_)
JoinFrames(frames) ==
    IF frames = <<>> THEN ""
    ELSE "{\"label\":\"" \o Head(frames) \o ObjectSuffix
         \o (IF Len(frames) > 1 THEN "," ELSE "") \o JoinFrames(Tail(frames))

\* json.Marshal(errResp): stackTrace is omitempty
MarshalErrorResponse(e) ==
    "{\"errorType\":\"" \o e.Type \o "\",\"errorMessage\":\"" \o e.Message \o "\""
    \o (IF Len(e.StackTrace) > 0
        THEN ",\"stackTrace\":[" \o JoinFrames(e.StackTrace) \o "]"
        ELSE "")
    \o "}"

----------------------------------------------------------------------------
(* runtime.go: the runtime API client *)

runtimeAPIVersion == "2018-06-01"

StatusOK == 200

StatusAccepted == 202

responsePath == "/response"

errorPath == "/error"

\* newRuntimeClient: baseURL
baseURL == "http://" \o runtimeAPI \o "/" \o runtimeAPIVersion \o "/runtime/invocation/"

\* The status codes the control plane answers with in the model; a request
\* can also fail without any answer (httpClient.Do returns an error).
Statuses == {StatusOK, StatusAccepted, 500}

RequestIDs == {"req-1", "req-2"}

\* The response headers of GET .../next.  Header.Get gives "" for a header
\* that is absent.
IntegerDeadlines == {"1609"}

NonIntegerDeadlines == {"12a"}

DeadlineHeaders == {""} \cup NonIntegerDeadlines \cup IntegerDeadlines

TraceHeaders == {"", "Root=1-5e9c"}

ValidIdentities == {CognitoPrefix \o "id-123" \o ObjectSuffix}

MalformedIdentities == {"{bad"}

CognitoHeaders == {""} \cup ValidIdentities \cup MalformedIdentities

ValidClientContexts == {ClientContextPrefix \o "value" \o ObjectSuffix}

MalformedClientContexts == {"[1]"}

ClientContextHeaders == {""} \cup ValidClientContexts \cup MalformedClientContexts

FunctionARNHeaders == {"", "arn:aws:lambda:fn"}

NextHeaders ==
    [requestId : RequestIDs, deadlineMs : DeadlineHeaders, traceId : TraceHeaders,
     cognitoIdentity : CognitoHeaders, clientContext : ClientContextHeaders,
     functionArn : FunctionARNHeaders]

NoHeaders ==
    [requestId |-> "", deadlineMs |-> "", traceId |-> "", cognitoIdentity |-> "",
     clientContext |-> "", functionArn |-> ""]

\* The response bodies of GET .../next
ValidPayloads == {EventPrefix \o "world" \o ObjectSuffix}

MalformedPayloads == {"not json"}

Payloads == ValidPayloads \cup MalformedPayloads

NoInvocation == [requestID |-> "", payload |-> "", headers |-> NoHeaders]

\* A next() without the check of the status code.
nextAnyStatus(status, headers, body) ==
    [ok |-> TRUE,
     inv |-> [requestID |-> headers.requestId, payload |-> body,
              headers |-> headers]]

\* A next() that keeps the request id and the body but not the headers.
nextWithoutHeaders(status, headers, body) ==
    IF status # StatusOK
    THEN [ok |-> FALSE, inv |-> NoInvocation]
    ELSE [ok |-> TRUE,
          inv |-> [requestID |-> headers.requestId, payload |-> body,
                   headers |-> NoHeaders]]

\* runtimeClient.next, once the response is there: an error for every status
\* but 200, else the invocation made of the response.
next(status, headers, body) ==
    IF status # StatusOK
    THEN [ok |-> FALSE, inv |-> NoInvocation]
    ELSE [ok |-> TRUE,
          inv |-> [requestID |-> headers.requestId, payload |-> body,
                   headers |-> headers]]

NoPost == [url |-> "", body |-> ""]

\* invocation.success: the POST it sends
success(i, responsePayload) ==
    [url |-> baseURL \o i.requestID \o responsePath, body |-> responsePayload]

\* A failure report whose URL leaves out the request id.
failureWithoutID(i, errorPayload) ==
    [url |-> baseURL \o errorPath, body |-> errorPayload]

\* invocation.failure: the POST it sends
failure(i, errorPayload) ==
    [url |-> baseURL \o i.requestID \o errorPath, body |-> errorPayload]

\* A post() that takes every 2xx status for a success.
postOKAny2xx(status) == status \in 200..299

\* runtimeClient.post, once the response is there: nil only for 202
postOK(status) == status = StatusAccepted

----------------------------------------------------------------------------
(* voker.go: one pass of handleInvocation, from blocking point to blocking point *)

\* What the handler can do: return an output, return an error, panic.
Outputs ==
    {[supported |-> TRUE, Message |-> "hello world"],
     [supported |-> TRUE, Message |-> ""],
     [supported |-> FALSE, Message |-> ""]}

HandlerErrors ==
    {ErrorsNew("handler error"),
     GoValue("", TRUE, "ErrorResponse", "*voker.ErrorResponse", "boom", <<StackFrame>>)}

PanicValues ==
    {GoValue("string", FALSE, "", "string", "oh no!", <<>>)}

ExtensionCounts == {0, 1}

NoLambdaContext ==
    [AwsRequestID |-> "", InvokedFunctionArn |-> "", Identity |-> "",
     ClientContext |-> ""]

\* An entry of the log:
\*   next                  GET .../next is sent
\*   inv, rid              it is answered 200 with this request id header
\*   nextfail              it is answered otherwise, or not at all
\*   call, rid / ret, rid  the handler is called / has returned or panicked
\*   log, rid              the "invocation error" line is logged (with a stack?)
\*   post, url             a POST to this URL is sent
\*   ack                   the POST is answered 202 (ok), or not (failed)
\*   return                handleInvocation returns this value
\*   exit                  the process ends with this code
Event(e, rid, info) == [e |-> e, rid |-> rid, info |-> info]

\* the values handleInvocation returns
errNext == "failed to get next invocation"

errSendSuccess == "failed to send success response"

errSendError == "failed to send error response"

errHandlerPanicked == "handler panicked"

\* A parseDeadline that takes a deadline it cannot parse for the zero time.
parseDeadlineOrZero(deadlineMS) ==
    LET r == ParseInt(deadlineMS)
    IN  [ok |-> TRUE, time |-> IF r.ok THEN r.val ELSE 0,
         err |-> GoValue("", FALSE, "", "", "", <<>>)]

parseDeadline(deadlineMS) ==
    LET r == ParseInt(deadlineMS)
    IN  IF r.ok
        THEN [ok |-> TRUE, time |-> r.val,
              err |-> GoValue("", FALSE, "", "", "", <<>>)]
        ELSE [ok |-> FALSE, time |-> 0,
              err |-> Errorf("failed to parse deadline", ParseIntErrorText)]

\* A pass that derives the deadline first and writes the trace id only when
\* that has succeeded.
traceAfterDeadline(headers) ==
    IF options.enableTraceID /\ headers.traceId # "" /\ parseDeadline(headers.deadlineMs).ok
    THEN headers.traceId
    ELSE traceEnv

\* handleInvocation, lines 137-141: the trace id a pass leaves in the environment
traceAfter(headers) ==
    IF options.enableTraceID /\ headers.traceId # ""
    THEN headers.traceId
    ELSE traceEnv

\* A LambdaContext that is given no invoked function ARN.
lambdaContextWithoutARN(i, identity, clientContext) ==
    [AwsRequestID |-> i.requestID, InvokedFunctionArn |-> "",
     Identity |-> identity, ClientContext |-> clientContext]

\* handleInvocation, lines 151-166: the LambdaContext of an invocation, made
\* anew for each one
lambdaContext(i, identity, clientContext) ==
    [AwsRequestID |-> i.requestID, InvokedFunctionArn |-> i.headers.functionArn,
     Identity |-> identity, ClientContext |-> clientContext]

\* handleInvocation from the parsing of the deadline to the call of the
\* handler (lines 143-168) and callHandler up to that call (lines 190-196):
\* either the error record to report, or what the handler is called with.
prepare(i) ==
    LET deadline == parseDeadline(i.headers.deadlineMs)
        cognito  == UnmarshalField(i.headers.cognitoIdentity, CognitoPrefix)
        client   == UnmarshalField(i.headers.clientContext, ClientContextPrefix)
        input    == UnmarshalInput(i.payload)
        failed(e) == [ok |-> FALSE, err |-> e, lc |-> NoLambdaContext, deadline |-> 0,
                      input |-> ""]
    IN  IF ~deadline.ok
        THEN failed(newErrorResponse(deadline.err))
        ELSE IF i.headers.cognitoIdentity # "" /\ ~cognito.ok
        THEN failed(newErrorResponse(
                 Errorf("failed to parse cognito identity", JSONSyntaxErrorText)))
        ELSE IF i.headers.clientContext # "" /\ ~client.ok
        THEN failed(newErrorResponse(
                 Errorf("failed to parse client context", JSONSyntaxErrorText)))
        ELSE IF ~input.ok
        THEN failed([Type |-> "Runtime.UnmarshalError",
                     Message |-> "failed to unmarshal input: " \o JSONSyntaxErrorText,
                     StackTrace |-> <<>>])
        ELSE [ok |-> TRUE, err |-> NoErrorResponse,
              lc |-> lambdaContext(i,
                                   IF i.headers.cognitoIdentity # ""
                                   THEN cognito.val ELSE "",
                                   IF i.headers.clientContext # ""
                                   THEN client.val ELSE ""),
              deadline |-> deadline.time,
              input |-> input.val]

\* A callHandler that returns the bytes of json.Marshal whatever its error.
marshalResultUnchecked(output) ==
    [ok |-> TRUE, bytes |-> MarshalOutput(output).bytes, err |-> NoErrorResponse]

\* callHandler, lines 203-211: what it returns for an output of the handler
marshalResult(output) ==
    LET r == MarshalOutput(output)
    IN  IF r.ok
        THEN [ok |-> TRUE, bytes |-> r.bytes, err |-> NoErrorResponse]
        ELSE [ok |-> FALSE, bytes |-> "",
              err |-> [Type |-> "Runtime.MarshalError",
                       Message |-> "failed to marshal output: " \o JSONUnsupportedText,
                       StackTrace |-> <<>>]]

\* Once handleInvocation has its report to send it reads nothing of the pass
\* but the request id (in the URL of the POST) and the record it reports: the
\* model keeps no other local of the pass from there on.
ReportOnly(i) ==
    /\ inv' = [requestID |-> i.requestID, payload |-> "", headers |-> NoHeaders]
    /\ lc' = NoLambdaContext
    /\ ctxDeadline' = 0
    /\ handlerInput' = ""

\* A sendError that writes its log line once the report has been sent.
sendErrorLogsLast(i, e, lg) ==
    /\ ReportOnly(i)
    /\ errResp' = e
    /\ post' = failure(i, MarshalErrorResponse(e))
    /\ log' = lg \o <<Event("post", "", failure(i, MarshalErrorResponse(e)).url),
                      Event("log", i.requestID,
                            IF Len(e.StackTrace) > 0 THEN "stack" ELSE "")>>
    /\ pc' = "failure"

\* sendError up to its blocking call: the record is logged, then posted
sendError(i, e, lg) ==
    /\ ReportOnly(i)
    /\ errResp' = e
    /\ post' = failure(i, MarshalErrorResponse(e))
    /\ log' = lg \o <<Event("log", i.requestID,
                            IF Len(e.StackTrace) > 0 THEN "stack" ELSE ""),
                      Event("post", "", failure(i, MarshalErrorResponse(e)).url)>>
    /\ pc' = "failure"

\* handleInvocation, lines 175-177, up to the blocking call
sendSuccess(i, response, lg) ==
    /\ ReportOnly(i)
    /\ errResp' = NoErrorResponse
    /\ post' = success(i, response)
    /\ log' = Append(lg, Event("post", "", success(i, response).url))
    /\ pc' = "success"

\* A sendError that does not look at what inv.failure returned.
sendErrorReturnUnchecked(e, posted) ==
    IF Len(e.StackTrace) > 0 THEN errHandlerPanicked ELSE "nil"

\* sendError after inv.failure (lines 240-248): what it returns
sendErrorReturn(e, posted) ==
    IF ~posted THEN errSendError
    ELSE IF Len(e.StackTrace) > 0 THEN errHandlerPanicked
    ELSE "nil"

\* handleInvocation after inv.success (lines 175-179): what it returns
successReturn(posted) == IF ~posted THEN errSendSuccess ELSE "nil"

\* A loop that exits only inside the branch that logs the error, which the
\* handler-panicked error does not take.
fatalUnlessPanicked(err) == err # "nil" /\ err # errHandlerPanicked

\* Start, lines 120-126: an error of handleInvocation ends the process
fatal(err) == err # "nil"

----------------------------------------------------------------------------
(* The steps *)

config == <<runtimeAPI, options>>

\* the state of the extension manager (extension.go), which the steps of the
\* invocation loop leave alone
extVars == <<extensions, mgrpc, mdone, loop, resultCh, onSIGTERM, hookCalls,
             hookDeadline, shutdownCtx, sigtermAt, now, events, shutdownLog, startLog,
             startErr, fetching, onInvoke, logged, resp, returned, made, signals>>

\* the state of the invocation loop, which the steps of the extension manager
\* leave alone
mainVars == <<runtimeAPI, options, pc, sigpc, done, inv, lc, ctxDeadline, ctxDone,
              handlerInput, traceEnv, active, post, errResp, passes, given, outcome,
              exited, exitCode, log, resp, returned, made, signals>>

\* newExtensionManager for no extension at all
NoManager ==
    /\ extensions = <<>>
    /\ mgrpc = "new"
    /\ mdone = FALSE
    /\ loop = <<>>
    /\ resultCh = <<>>
    /\ onSIGTERM = <<>>
    /\ hookCalls = <<>>
    /\ hookDeadline = <<>>
    /\ shutdownCtx = 0
    /\ sigtermAt = 0
    /\ now = 0
    /\ events = 0
    /\ shutdownLog = <<>>
    /\ startLog = <<>>
    /\ startErr = "nil"
    /\ fetching = <<>>
    /\ onInvoke = <<>>
    /\ logged = [k |-> 0, msg |-> ""]

\* the locals of a pass of handleInvocation
passLocals == <<inv, lc, ctxDeadline, ctxDone, handlerInput, post, errResp>>

\* What the model remembers of the last pass, until the next one begins:
\* whether the metadata and the payload the control plane sent were well
\* formed, the trace token that came with them, and what the handler did.
NoGiven == [metadata |-> "", payload |-> "", trace |-> ""]

NoOutcome == [how |-> "", supported |-> FALSE, Message |-> ""]

Given(headers, body) ==
    [metadata |-> IF /\ headers.deadlineMs \in IntegerDeadlines
                     /\ headers.cognitoIdentity \in {""} \cup ValidIdentities
                     /\ headers.clientContext \in {""} \cup ValidClientContexts
                  THEN "valid" ELSE "invalid",
     payload  |-> IF body \in ValidPayloads THEN "valid" ELSE "malformed",
     trace    |-> headers.traceId]

\* the runtime client has not been called
NoResponse ==
    [method |-> "", status |-> 0, headers |-> NoHeaders, body |-> "", read |-> FALSE]

NoReturn == [ok |-> FALSE, inv |-> NoInvocation]

\* no error record has been made
NoneMade == [fn |-> "", of |-> NilValue, panicked |-> FALSE, tag |-> ""]

\* Start has been called and has done nothing yet
InitLocals ==
    /\ made = NoneMade
    /\ signals = 0
    /\ resp = NoResponse
    /\ returned = NoReturn
    /\ pc = "start"
    /\ sigpc = "none"
    /\ done = FALSE
    /\ inv = NoInvocation
    /\ lc = NoLambdaContext
    /\ ctxDeadline = 0
    /\ ctxDone = FALSE
    /\ handlerInput = ""
    /\ traceEnv = ""
    /\ active = 0
    /\ post = NoPost
    /\ errResp = NoErrorResponse
    /\ passes = 0
    /\ given = NoGiven
    /\ outcome = NoOutcome
    /\ exited = FALSE
    /\ exitCode = 0
    /\ log = <<>>

Init ==
    /\ runtimeAPI \in {"", "127.0.0.1:9001"}
    /\ options \in [enableTraceID : BOOLEAN, extensions : ExtensionCounts]
    /\ InitLocals
    /\ NoManager

\* os.Exit(code): the whole process ends, whatever its goroutines were doing
Exit(code, lg) ==
    /\ exited' = TRUE
    /\ exitCode' = code
    /\ log' = Append(lg, Event("exit", "", IF code = 0 THEN "0" ELSE "1"))
    /\ pc' = "exited"

\* the locals of a pass of handleInvocation are gone when it returns
PassLocalsDropped ==
    /\ inv' = NoInvocation
    /\ lc' = NoLambdaContext
    /\ ctxDeadline' = 0
    /\ ctxDone' = FALSE
    /\ handlerInput' = ""
    /\ post' = NoPost
    /\ errResp' = NoErrorResponse

\* A loop that, once SIGTERM has come, ends the process with code 0 whatever
\* the error of handleInvocation.
LoopAfterPassGraceful(err, lg) ==
    IF fatal(err)
    THEN Exit(IF sigpc \in {"shutdown", "closed"} THEN 0 ELSE 1,
              Append(lg, Event("return", "", err)))
    ELSE /\ pc' = "select"
         /\ log' = Append(lg, Event("return", "", err))
         /\ UNCHANGED <<exited, exitCode>>

\* Start, lines 120-126: handleInvocation has returned err
LoopAfterPass(err, lg) ==
    IF fatal(err)
    THEN Exit(1, Append(lg, Event("return", "", err)))
    ELSE /\ pc' = "select"
         /\ log' = Append(lg, Event("return", "", err))
         /\ UNCHANGED <<exited, exitCode>>

\* Start, lines 89-93: no runtime API address
StartNoRuntimeAPI ==
    /\ ~exited /\ pc = "start"
    /\ runtimeAPI = ""
    /\ Exit(1, log)
    /\ UNCHANGED <<config, extVars, passLocals, sigpc, done, traceEnv, active, passes, given,
                   outcome>>

\* Start, lines 97-102: extMgr.start() returns an error
StartExtensionsFail ==
    /\ ~exited /\ pc = "start"
    /\ runtimeAPI # ""
    /\ options.extensions > 0
    /\ Exit(1, log)
    /\ UNCHANGED <<config, extVars, passLocals, sigpc, done, traceEnv, active, passes, given,
                   outcome>>

\* Start, lines 95-113: the extensions, if any, are started and the goroutine
\* that waits for SIGTERM is running; the loop begins
StartLoop ==
    /\ ~exited /\ pc = "start"
    /\ runtimeAPI # ""
    /\ sigpc' = IF options.extensions > 0 THEN "waiting" ELSE "none"
    /\ pc' = "select"
    /\ UNCHANGED <<config, extVars, passLocals, done, traceEnv, active, passes, given, outcome,
                   exited, exitCode, log>>

\* Start, lines 106-108: SIGTERM arrives and extMgr.shutdown() is called
Sigterm ==
    /\ ~exited /\ sigpc = "waiting"
    /\ sigpc' = "shutdown"
    /\ UNCHANGED <<config, extVars, passLocals, pc, done, traceEnv, active, passes, given,
                   outcome, exited, exitCode, log>>

\* A goroutine that, having closed done, waits for the next SIGTERM.
afterCloseWaitsAgain == "waiting"

\* Start, lines 106-110: close(done) is the last statement of the goroutine
afterClose == "closed"

\* Start, lines 108-109: extMgr.shutdown() has returned, close(done)
CloseDone ==
    /\ ~exited /\ sigpc = "shutdown"
    /\ sigpc' = afterClose
    /\ done' = TRUE
    /\ UNCHANGED <<config, extVars, passLocals, pc, traceEnv, active, passes, given, outcome,
                   exited, exitCode, log>>

\* A loop that begins its next pass while the report of the last one is
\* still on its way (as if the report were sent from a goroutine of its own).
atSelectOrReporting == pc \in {"select", "success", "failure"}

\* the main goroutine is at the select of Start's loop
atSelect == pc = "select"

\* Start, lines 116-118: done is closed, Start returns and main with it
StartReturns ==
    /\ ~exited /\ atSelect
    /\ done
    /\ Exit(0, log)
    /\ UNCHANGED <<config, extVars, passLocals, sigpc, done, traceEnv, active, passes, given,
                   outcome>>

\* A select whose default case can be taken although done is closed.
defaultTakenAnyway == TRUE

\* Start, lines 116-119: a select takes its default case only when no other
\* case is ready, that is when done is not closed
defaultTaken == ~done

\* Start, lines 119-120, and handleInvocation, line 132: done is not closed,
\* handleInvocation is called and sends GET .../next
FetchNext ==
    /\ ~exited /\ atSelect
    /\ defaultTaken
    /\ passes < MaxPasses
    /\ passes' = passes + 1
    /\ pc' = "next"
    /\ log' = Append(log, Event("next", "", ""))
    /\ given' = NoGiven
    /\ outcome' = NoOutcome
    /\ UNCHANGED <<config, extVars, passLocals, sigpc, done, traceEnv, active, exited,
                   exitCode>>

\* handleInvocation with the result of client.next() (lines 132-173), up to
\* its next blocking call: the handler, or the POST of an error record
AfterNext(r, lg) ==
    IF ~r.ok
    THEN /\ LoopAfterPass(errNext, lg)
         /\ UNCHANGED <<passLocals, traceEnv, active>>
    ELSE LET p == prepare(r.inv)
         IN  /\ traceEnv' = traceAfter(r.inv.headers)
             /\ UNCHANGED <<exited, exitCode>>
             /\ IF p.ok
                THEN /\ inv' = r.inv
                     /\ lc' = p.lc
                     /\ ctxDeadline' = p.deadline
                     /\ ctxDone' = FALSE
                     /\ handlerInput' = p.input
                     /\ active' = active + 1
                     /\ pc' = "handler"
                     /\ log' = Append(lg, Event("call", r.inv.requestID, ""))
                     /\ UNCHANGED <<post, errResp>>
                ELSE /\ sendError(r.inv, p.err, lg)
                     /\ UNCHANGED <<active, ctxDone>>

\* the control plane answers GET .../next
NextResponse(status, headers, body) ==
    /\ ~exited /\ pc = "next"
    /\ AfterNext(next(status, headers, body),
                 IF status = StatusOK
                 THEN Append(log, Event("inv", headers.requestId, ""))
                 ELSE Append(log, Event("nextfail", "", "status")))
    /\ given' = IF status = StatusOK THEN Given(headers, body) ELSE NoGiven
    /\ UNCHANGED <<config, extVars, sigpc, done, passes, outcome>>

\* GET .../next fails without an answer (httpClient.Do or io.ReadAll fails)
NextFails ==
    /\ ~exited /\ pc = "next"
    /\ AfterNext([ok |-> FALSE, inv |-> NoInvocation],
                 Append(log, Event("nextfail", "", "connection")))
    /\ UNCHANGED <<config, extVars, sigpc, done, passes, given, outcome>>

\* callHandler has its result (lines 198-211, or the deferred recover of
\* lines 183-188); handleInvocation reports it (lines 170-175)
AfterHandler(r, how, output) ==
    LET lg == Append(log, Event("ret", inv.requestID, ""))
    IN  /\ ~exited /\ pc = "handler"
        /\ active' = active - 1
        /\ outcome' = [how |-> how, supported |-> output.supported,
                       Message |-> output.Message]
        /\ IF r.ok
           THEN sendSuccess(inv, r.bytes, lg)
           ELSE sendError(inv, r.err, lg)
        /\ UNCHANGED <<config, extVars, sigpc, done, ctxDone, traceEnv, passes, given, exited,
                       exitCode>>

\* A pipeline that gives up the handler call when the deadline passes and
\* reports the expiry as the invocation's error.
DeadlineAbortsHandler ==
    /\ ~exited /\ pc = "handler" /\ ~ctxDone
    /\ ctxDone' = TRUE
    /\ active' = active - 1
    /\ sendError(inv, newErrorResponse(ErrorsNew("context deadline exceeded")), log)
    /\ UNCHANGED <<config, extVars, sigpc, done, traceEnv, passes, given, outcome, exited,
                   exitCode>>

\* handleInvocation, lines 148-149 and 170: the deadline of the context passes
\* while callHandler is running (at once, if it had passed when the context
\* was made).  The context's Done is closed; handleInvocation itself never
\* reads it and goes on waiting for callHandler.
DeadlinePasses ==
    /\ ~exited /\ pc = "handler" /\ ~ctxDone
    /\ ctxDone' = TRUE
    /\ UNCHANGED <<config, extVars, sigpc, done, inv, lc, ctxDeadline, handlerInput, post,
                   errResp, pc, traceEnv, active, passes, given, outcome, exited,
                   exitCode, log>>

HandlerReturnsValue(output) == AfterHandler(marshalResult(output), "value", output)

\* A callHandler that returns the handler's error as it is: sendError's type
\* assertion then takes an *ErrorResponse of the handler for the record.
HandlerReturnsErrorUnwrapped(err) ==
    AfterHandler([ok |-> FALSE, bytes |-> "",
                  err |-> IF err.elem = "ErrorResponse"
                          THEN [Type |-> "Custom", Message |-> err.msg,
                                StackTrace |-> err.frames]
                          ELSE newErrorResponse(err)],
                 "error", NoOutcome)

HandlerReturnsError(err) ==
    AfterHandler([ok |-> FALSE, bytes |-> "", err |-> newErrorResponse(err)],
                 "error", NoOutcome)

HandlerPanics(panicValue, stack) ==
    AfterHandler([ok |-> FALSE, bytes |-> "",
                  err |-> newPanicResponse(panicValue, stack)],
                 "panic", NoOutcome)

\* the POST of the report has returned: post() gives nil or an error, then
\* sendError / handleInvocation return and Start's loop goes on or exits
AfterPost(posted) ==
    LET lg  == Append(log, Event("ack", "", IF posted THEN "ok" ELSE "failed"))
        err == IF pc = "success" THEN successReturn(posted)
               ELSE sendErrorReturn(errResp, posted)
    IN  /\ ~exited /\ pc \in {"success", "failure"}
        /\ LoopAfterPass(err, lg)
        /\ PassLocalsDropped
        /\ UNCHANGED <<config, extVars, sigpc, done, traceEnv, active, passes, given, outcome>>

\* the control plane answers the POST
PostResponse(status) == AfterPost(postOK(status))

\* the POST fails without an answer
PostFails == AfterPost(FALSE)

Next ==
    \/ StartNoRuntimeAPI
    \/ StartExtensionsFail
    \/ StartLoop
    \/ Sigterm
    \/ CloseDone
    \/ StartReturns
    \/ FetchNext
    \/ \E headers \in NextHeaders, body \in Payloads :
           NextResponse(StatusOK, headers, body)
    \/ \E status \in Statuses \ {StatusOK} : NextResponse(status, NoHeaders, "")
    \/ NextFails
    \/ DeadlinePasses
    \/ \E output \in Outputs : HandlerReturnsValue(output)
    \/ \E err \in HandlerErrors : HandlerReturnsError(err)
    \/ \E panicValue \in PanicValues, stack \in captureStackTrace :
           HandlerPanics(panicValue, stack)
    \/ \E status \in Statuses : PostResponse(status)
    \/ PostFails

Spec == Init /\ [][Next]_vars

----------------------------------------------------------------------------
(* extension.go: the extension manager.  start() registers the extensions
   one after the other and starts an event loop for each; an event loop
   waits, in its select, for the event its fetch goroutine puts in resultCh
   or for done; shutdown() closes done, calls the OnSIGTERM hooks and waits
   for the event loops.  Each is followed from blocking point to blocking
   point; the Extensions API and the hooks are the environment. *)

sigtermContextDeadline == 500

\* examples/error/main.go, lines 62-72: the constants of the Extensions API
extensionAPIVersion == "2020-01-01"

eventTypeInvoke == "INVOKE"

\* the status that stands for no answer at all: httpClient.Do returns an error
NoAnswer == 0

\* an InternalExtension: which of its optional hooks are not nil
ExtensionKinds == [OnInit : BOOLEAN, OnInvoke : BOOLEAN, OnSIGTERM : BOOLEAN]

\* the places of the extensions in options.extensions: one or two of them
ExtensionIds == {1, 2}

Exts == DOMAIN extensions

\* ext.Name of the extension at place k
Name(k) == IF k = 1 THEN "ext-1" ELSE "ext-2"

\* the identifier the control plane gives the extension at place k when it
\* registers, in the header lambda-extension-identifier
Identifier(k) == IF k = 1 THEN "id-1" ELSE "id-2"

registerURL == "http://" \o runtimeAPI \o "/" \o extensionAPIVersion \o "/extension/register"

extensionNextURL == "http://" \o runtimeAPI \o "/" \o extensionAPIVersion \o "/extension/event/next"

\* A start() that subscribes every extension to the invoke event.
eventsOfAlwaysInvoke(ext) == <<eventTypeInvoke>>

\* start(), lines 57-60: the events the extension is registered for (a nil
\* slice if it has no OnInvoke)
eventsOf(ext) == IF ext.OnInvoke THEN <<eventTypeInvoke>> ELSE <<>>

\* json.Marshal of a slice of event types: null for the nil slice
RECURSIVE MarshalEvents(_)
MarshalEvents(evs) ==
    IF evs = <<>> THEN ""
    ELSE "\"" \o Head(evs) \o "\""
         \o (IF Len(evs) > 1 THEN "," ELSE "") \o MarshalEvents(Tail(evs))

\* register, line 100: json.Marshal(registerRequest{Events: events})
MarshalRegisterRequest(evs) ==
    "{\"events\":" \o (IF evs = <<>> THEN "null" ELSE "[" \o MarshalEvents(evs) \o "]")
    \o "}"

\* extensionAPIClient.register with the answer of the control plane: the
\* identifier of the answer's header, or an error
register(status, id) ==
    IF status = NoAnswer THEN [id |-> "", err |-> "failed to register extension"]
    ELSE IF status # StatusOK THEN [id |-> "", err |-> "register failed with status"]
    ELSE [id |-> id, err |-> "nil"]

\* An entry of startLog: "init" (the OnInit of extension k is called) or
\* "register" (the POST to url, with the extension's name in its header and
\* body as its body, is sent), and the error the call returned
StartEvent(e, k, url, name, body, err) ==
    [e |-> e, k |-> k, url |-> url, name |-> name, body |-> body, err |-> err]

\* ExtensionEventPayload, as far as the manager reads it
NoEvent == [eventType |-> "", deadlineMs |-> 0, requestId |-> ""]

EventPayloads ==
    {[eventType |-> eventTypeInvoke, deadlineMs |-> d, requestId |-> "req-1"] : d \in {0, 1609}}
    \cup {[eventType |-> "SHUTDOWN", deadlineMs |-> 0, requestId |-> ""]}

\* extensionAPIClient.next with the answer of the control plane: the decoded
\* event, or an error
extensionAPINext(status, decodable, payload) ==
    IF status = NoAnswer THEN [err |-> "failed to get next event", payload |-> NoEvent]
    ELSE IF status # StatusOK THEN [err |-> "next failed with status", payload |-> NoEvent]
    ELSE IF ~decodable THEN [err |-> "failed to decode event", payload |-> NoEvent]
    ELSE [err |-> "nil", payload |-> payload]

\* what client.next(id) gives the fetch goroutine: an INVOKE event with or
\* without deadline, an event of another type, or one of the three errors
EventResults ==
    {extensionAPINext(StatusOK, TRUE, p) : p \in EventPayloads}
    \cup {extensionAPINext(StatusOK, FALSE, NoEvent),
          extensionAPINext(500, TRUE, NoEvent),
          extensionAPINext(NoAnswer, TRUE, NoEvent)}

\* resultCh of an event loop when nothing is in it; otherwise the result of
\* client.next(id), and the id the fetch was sent with
NoResult == [id |-> "", err |-> "", payload |-> NoEvent]

\* a context: context.Background() has no deadline
Background == [hasDeadline |-> FALSE, deadline |-> 0]

WithDeadline(deadline) == [hasDeadline |-> TRUE, deadline |-> deadline]

\* An event loop that calls every OnInvoke with the background context.
onInvokeContextBackground(payload) == Background

\* eventLoop, lines 116-122: the context OnInvoke is called with
onInvokeContext(payload) ==
    IF payload.deadlineMs > 0 THEN WithDeadline(payload.deadlineMs) ELSE Background

\* the call of OnInvoke an event loop is in: its two arguments
NoCall == [ctx |-> Background, eventPayload |-> NoEvent]

\* a line of the manager's logger: the extension it names and the message
LogLine(k, msg) == [k |-> k, msg |-> msg]

\* An entry of shutdownLog: "done" (done is closed), "call" and "back" (the
\* OnSIGTERM of extension k is called, has returned), "return" (shutdown()
\* returns); a "call" with the time at which it happened.
ShutdownEvent(e, k) == [e |-> e, k |-> k, at |-> IF e = "call" THEN now ELSE 0]

\* newExtensionManager, lines 40-47, for the extensions exts; start() has
\* been called and has done nothing yet
ManagerInit(exts) ==
    /\ extensions = exts
    /\ mgrpc = "start"
    /\ mdone = FALSE
    /\ loop = [k \in Exts |-> "none"]
    /\ resultCh = [k \in Exts |-> NoResult]
    /\ onSIGTERM = [k \in Exts |-> "idle"]
    /\ hookCalls = [k \in Exts |-> 0]
    /\ hookDeadline = [k \in Exts |-> 0]
    /\ shutdownCtx = 0
    /\ sigtermAt = 0
    /\ now = 0
    /\ events = 0
    /\ shutdownLog = <<>>
    /\ startLog = <<>>
    /\ startErr = "nil"
    /\ fetching = [k \in Exts |-> FALSE]
    /\ onInvoke = [k \in Exts |-> NoCall]
    /\ logged = LogLine(0, "")

\* the extensions whose shutdown is followed: with or without OnInvoke and
\* OnSIGTERM, none with an OnInit
ShutdownKinds == {x \in ExtensionKinds : ~x.OnInit}

\* the answers to their fetches: an INVOKE event or an error
ShutdownResults ==
    {extensionAPINext(StatusOK, TRUE, p) :
         p \in {q \in EventPayloads : q.eventType = eventTypeInvoke /\ q.deadlineMs = 0}}
    \cup {extensionAPINext(500, TRUE, NoEvent)}

ExtInit ==
    /\ runtimeAPI = "127.0.0.1:9001"
    /\ options = [enableTraceID |-> FALSE, extensions |-> 1]
    /\ InitLocals
    /\ \E exts \in UNION {[1..n -> ShutdownKinds] : n \in ExtensionIds} : ManagerInit(exts)

\* the state of start() and of shutdown(), which the event loops leave alone
managerVars == <<extensions, mgrpc, mdone, onSIGTERM, hookCalls, hookDeadline,
                 shutdownCtx, sigtermAt, now, shutdownLog, startLog, startErr>>

\* the state of the event loops, which shutdown() leaves alone
loopVars == <<loop, resultCh, fetching, events, onInvoke, logged>>

\* A start() that takes no notice of the error of an OnInit or of a
\* registration and goes on.
startGoesOn(err) == FALSE

\* start(), lines 52-54 and 63-65: an error of OnInit or of register makes
\* start() return at once
startReturnsError(err) == err # "nil"

\* A start() that starts no event loop before every extension is registered.
wgGoPutOff == "none"

\* start(), line 67: m.wg.Go starts the event loop of an extension as soon as
\* the extension is registered; the loop goes to its select
wgGo == "select"

\* start(), lines 50-68, for the next extension: its OnInit, if it has one,
\* is called and returns nil or an error; it is registered; its event loop is
\* started, which starts its first fetch (lines 90-101)
StartExtension(initFails, status) ==
    LET k       == Cardinality({startLog[i].k : i \in 1..Len(startLog)}) + 1
        ext     == extensions[k]
        r       == register(status, Identifier(k))
        inits   == IF ext.OnInit
                   THEN <<StartEvent("init", k, "", "", "",
                                     IF initFails THEN "init failed" ELSE "nil")>>
                   ELSE <<>>
        request == StartEvent("register", k, registerURL, Name(k),
                              MarshalRegisterRequest(eventsOf(ext)), r.err)
        err     == IF initFails THEN "extension init failed"
                   ELSE IF r.err # "nil" THEN "failed to register extension"
                   ELSE "nil"
    IN  /\ mgrpc = "start"
        /\ k \in Exts
        /\ initFails => ext.OnInit
        /\ startLog' = startLog \o inits \o (IF initFails THEN <<>> ELSE <<request>>)
        /\ IF startReturnsError(err)
           THEN /\ mgrpc' = "startFailed"
                /\ startErr' = err
                /\ UNCHANGED <<loop, fetching>>
           ELSE /\ loop' = [loop EXCEPT ![k] = wgGo]
                /\ fetching' = [fetching EXCEPT ![k] = TRUE]
                /\ mgrpc' = IF k = Len(extensions) THEN "running" ELSE "start"
                /\ UNCHANGED startErr
        /\ UNCHANGED <<mainVars, extensions, mdone, resultCh, onSIGTERM, hookCalls,
                       hookDeadline, shutdownCtx, sigtermAt, now, events, shutdownLog,
                       onInvoke, logged>>

\* A start() whose goroutines all see the id of the extension registered last
\* (the closure of line 67 sharing one variable id).
eventLoopIDShared(k) == Identifier(Len(extensions))

\* start(), lines 62-67: the id the event loop of extension k is started
\* with, which it sends with each of its fetches (line 99)
eventLoopID(k) == Identifier(k)

\* A resultCh without buffer: the send waits for the select of the loop.
sendReadyUnbuffered(k) == loop[k] = "select"

\* eventLoop, lines 96 and 100: resultCh is made anew in each round with room
\* for one result, and gets one send, so the send finds the room free
sendReady(k) == resultCh[k] = NoResult

\* eventLoop, lines 98-101: client.next(id) returns and the fetch goroutine
\* puts the result in resultCh -- also when the event loop has returned
\* meanwhile, for the goroutine does not look at done
EventArrives(k, res) ==
    /\ k \in Exts
    /\ fetching[k]
    /\ sendReady(k)
    /\ events < MaxEvents
    /\ events' = events + 1
    /\ fetching' = [fetching EXCEPT ![k] = FALSE]
    /\ resultCh' = [resultCh EXCEPT ![k] =
                       [id |-> eventLoopID(k), err |-> res.err, payload |-> res.payload]]
    /\ UNCHANGED <<mainVars, managerVars, loop, onInvoke, logged>>

\* An event loop that returns when it gets an event of a type it does not know.
afterUnknownEventExit == "exited"

\* eventLoop, lines 125-129: after the default case the for loop goes round
afterUnknownEvent == "select"

\* An event loop that starts its next fetch as soon as it has taken a result,
\* before the event is handled.
startsFetchAtOnce(to) == to # "exited"

\* eventLoop, lines 90-101 and 129-130: the next fetch is started at the top
\* of the for loop, that is when the handling of the last event is over
startsFetch(to) == to = "select"

\* eventLoop, lines 107-129: the select takes the result of the fetch.  An
\* error is logged and the loop returns; OnInvoke is called for an INVOKE
\* event if the extension has one; an event of another type is logged; and
\* unless it has returned or is in OnInvoke the loop goes round and starts
\* the next fetch.
LoopTakesResult(k) ==
    LET res == resultCh[k]
        to  == IF res.err # "nil" THEN "exited"
               ELSE IF res.payload.eventType = eventTypeInvoke
                    THEN IF extensions[k].OnInvoke THEN "invoke" ELSE "select"
                    ELSE afterUnknownEvent
    IN  /\ k \in Exts
        /\ loop[k] = "select" /\ resultCh[k] # NoResult
        /\ loop' = [loop EXCEPT ![k] = to]
        /\ fetching' = [fetching EXCEPT ![k] = startsFetch(to)]
        /\ resultCh' = [resultCh EXCEPT ![k] = NoResult]
        /\ onInvoke' = [onInvoke EXCEPT ![k] =
                           IF to = "invoke"
                           THEN [ctx |-> onInvokeContext(res.payload),
                                 eventPayload |-> res.payload]
                           ELSE NoCall]
        /\ logged' = IF res.err # "nil"
                     THEN LogLine(k, "extension event loop error")
                     ELSE IF res.payload.eventType # eventTypeInvoke
                          THEN LogLine(k, "extension received unknown event type")
                          ELSE logged
        /\ UNCHANGED <<mainVars, managerVars, events>>

\* eventLoop, line 123: OnInvoke returns; the loop goes round and starts its
\* next fetch
InvokeReturns(k) ==
    /\ k \in Exts
    /\ loop[k] = "invoke"
    /\ loop' = [loop EXCEPT ![k] = "select"]
    /\ fetching' = [fetching EXCEPT ![k] = TRUE]
    /\ onInvoke' = [onInvoke EXCEPT ![k] = NoCall]
    /\ UNCHANGED <<mainVars, managerVars, resultCh, events, logged>>

\* An event loop that calls client.next(id) itself and looks at done only
\* when the call has returned.
doneReadyAfterFetch(k) == mdone /\ resultCh[k] # NoResult

\* Event loops that all return when the fetch of one of them has failed.
doneReadyOrLoopFailed(k) == mdone \/ logged.msg = "extension event loop error"

\* eventLoop, lines 103-104: the case <-m.done of the select can be taken
doneReady(k) == mdone

\* eventLoop, lines 104-106: the select takes done, the loop returns; its
\* fetch goroutine, if the fetch has not been answered, stays behind
LoopSeesDone(k) ==
    /\ k \in Exts
    /\ loop[k] = "select"
    /\ doneReady(k)
    /\ loop' = [loop EXCEPT ![k] = "exited"]
    /\ UNCHANGED <<mainVars, managerVars, resultCh, fetching, events, onInvoke, logged>>

\* shutdown(), lines 73-76: the context with its timeout is made and done closed
ShutdownBegins ==
    /\ mgrpc = "running"
    /\ mgrpc' = "hooks"
    /\ sigtermAt' = now
    /\ shutdownCtx' = now + sigtermContextDeadline
    /\ mdone' = TRUE
    /\ shutdownLog' = Append(shutdownLog, ShutdownEvent("done", 0))
    /\ UNCHANGED <<mainVars, loopVars, extensions, onSIGTERM, hookCalls, hookDeadline,
                   now, startLog, startErr>>

\* the extensions whose OnSIGTERM the loop of shutdown() has yet to call
HookPending == {k \in Exts : extensions[k].OnSIGTERM /\ onSIGTERM[k] = "idle"}

HookRunning == {k \in Exts : onSIGTERM[k] = "running"}

\* A shutdown() that starts each hook in a goroutine of its own.
mayCallHookAtOnce == TRUE

\* shutdown(), lines 78-82: ext.OnSIGTERM(ctx) is an ordinary call, so the
\* loop calls the next hook when the last one has returned
mayCallHook == HookRunning = {}

\* A shutdown() that makes a context of its own for each hook.
hookContextPerHook == now + sigtermContextDeadline

\* shutdown(), lines 73 and 80: the hooks are all called with the one ctx
hookContext == shutdownCtx

\* shutdown(), lines 78-80: the next OnSIGTERM that is not nil is called
HookStarts ==
    /\ mgrpc = "hooks"
    /\ HookPending # {}
    /\ mayCallHook
    /\ LET k == CHOOSE j \in HookPending : \A i \in HookPending : j <= i
       IN  /\ onSIGTERM' = [onSIGTERM EXCEPT ![k] = "running"]
           /\ hookCalls' = [hookCalls EXCEPT ![k] = @ + 1]
           /\ hookDeadline' = [hookDeadline EXCEPT ![k] = hookContext]
           /\ shutdownLog' = Append(shutdownLog, ShutdownEvent("call", k))
    /\ UNCHANGED <<mainVars, loopVars, extensions, mgrpc, mdone, shutdownCtx, sigtermAt,
                   now, startLog, startErr>>

\* shutdown(), line 80: an OnSIGTERM returns
HookReturns(k) ==
    /\ k \in Exts
    /\ mgrpc \in {"hooks", "returned"}
    /\ onSIGTERM[k] = "running"
    /\ onSIGTERM' = [onSIGTERM EXCEPT ![k] = "returned"]
    /\ shutdownLog' = Append(shutdownLog, ShutdownEvent("back", k))
    /\ UNCHANGED <<mainVars, loopVars, extensions, mgrpc, mdone, hookCalls, hookDeadline,
                   shutdownCtx, sigtermAt, now, startLog, startErr>>

\* A shutdown() that does not wait for the event loops.
wgWaitSkipped == TRUE

\* shutdown(), line 84: m.wg.Wait() returns when every event loop that
\* start() started (line 67) has returned
wgWait == \A k \in Exts : loop[k] \in {"none", "exited"}

\* A shutdown() that goes on while the hook it called last is still running.
hooksCalled == HookPending = {}

\* shutdown(), lines 78-82: the loop over the extensions is over
hooksOver == HookPending = {} /\ HookRunning = {}

\* shutdown(), lines 84-85: the loop over the extensions is over, the event
\* loops have returned, and shutdown() returns
ShutdownReturns ==
    /\ mgrpc = "hooks"
    /\ hooksOver
    /\ wgWait
    /\ mgrpc' = "returned"
    /\ shutdownLog' = Append(shutdownLog, ShutdownEvent("return", 0))
    /\ UNCHANGED <<mainVars, loopVars, extensions, mdone, onSIGTERM, hookCalls,
                   hookDeadline, shutdownCtx, sigtermAt, now, startLog, startErr>>

\* time passes while shutdown() is at work
Tick ==
    /\ mgrpc = "hooks"
    /\ now < MaxTicks * sigtermContextDeadline
    /\ now' = now + sigtermContextDeadline
    /\ UNCHANGED <<mainVars, loopVars, extensions, mgrpc, mdone, onSIGTERM, hookCalls,
                   hookDeadline, shutdownCtx, sigtermAt, shutdownLog, startLog, startErr>>

ExtNext ==
    \/ \E status \in {StatusOK, 500} : StartExtension(FALSE, status)
    \/ \E k \in ExtensionIds, res \in ShutdownResults :
           EventArrives(k, res)
    \/ \E k \in ExtensionIds : LoopTakesResult(k)
    \/ \E k \in ExtensionIds : InvokeReturns(k)
    \/ \E k \in ExtensionIds : LoopSeesDone(k)
    \/ ShutdownBegins
    \/ HookStarts
    \/ \E k \in ExtensionIds : HookReturns(k)
    \/ ShutdownReturns
    \/ Tick

ExtSpec == ExtInit /\ [][ExtNext]_vars

\* The hooks are assumed to return; the select of an event loop whose done
\* case is ready takes it sooner or later; shutdown() goes on when it can.
\* Nothing is assumed of the Extensions API: it may never answer a fetch.
ExtFairness ==
    /\ WF_vars(HookStarts)
    /\ WF_vars(ShutdownReturns)
    /\ \A k \in ExtensionIds :
           /\ WF_vars(HookReturns(k))
           /\ WF_vars(InvokeReturns(k))
           /\ SF_vars(LoopSeesDone(k))

ExtFairSpec == ExtSpec /\ ExtFairness

----------------------------------------------------------------------------
(* The event loops followed more closely: every kind of answer the Extensions
   API can give to a fetch, for extensions with and without OnInvoke. *)

LoopKinds == {x \in ExtensionKinds : ~x.OnInit /\ ~x.OnSIGTERM}

LoopInit ==
    /\ runtimeAPI = "127.0.0.1:9001"
    /\ options = [enableTraceID |-> FALSE, extensions |-> 1]
    /\ InitLocals
    /\ \E exts \in UNION {[1..n -> LoopKinds] : n \in ExtensionIds} : ManagerInit(exts)

LoopNext ==
    \/ StartExtension(FALSE, StatusOK)
    \/ \E k \in ExtensionIds, res \in EventResults : EventArrives(k, res)
    \/ \E k \in ExtensionIds : LoopTakesResult(k)
    \/ \E k \in ExtensionIds : InvokeReturns(k)
    \/ \E k \in ExtensionIds : LoopSeesDone(k)
    \/ ShutdownBegins
    \/ ShutdownReturns

LoopSpec == LoopInit /\ [][LoopNext]_vars

----------------------------------------------------------------------------
(* The whole process: Start with its extensions.  Start calls extMgr.start()
   before anything else (voker.go, lines 97-102), the goroutine that waits
   for SIGTERM calls extMgr.shutdown() and then closes done (lines 106-110),
   and os.Exit ends the event loops with everything else. *)

\* the extensions of the process: with all three hooks or with none
ProcKinds == {x \in ExtensionKinds : x.OnInit = x.OnInvoke /\ x.OnInvoke = x.OnSIGTERM}

\* the metadata and the payload of the invocations the process is given
ProcHeaders ==
    [requestId : {"req-1"}, deadlineMs : IntegerDeadlines, traceId : {""},
     cognitoIdentity : {""}, clientContext : {""}, functionArn : {""}]

\* the answers to the fetches of the event loops: an INVOKE event, or one of
\* the three errors of client.next
ProcResults == ShutdownResults \cup {r \in EventResults : r.err # "nil"}

ProcInit ==
    /\ runtimeAPI \in {"", "127.0.0.1:9001"}
    /\ \E exts \in UNION {[1..n -> ProcKinds] : n \in {0} \cup ExtensionIds} :
           /\ options = [enableTraceID |-> FALSE, extensions |-> Len(exts)]
           /\ IF runtimeAPI = "" \/ exts = <<>>
              THEN NoManager
              ELSE ManagerInit(exts)
    /\ InitLocals

\* Start, lines 97-99: extMgr.start() runs within Start, before the loop
InStart == ~exited /\ pc = "start" /\ runtimeAPI # ""

\* Start, lines 99-102: os.Exit(1) when extMgr.start() has returned an error
ProcStartExtensionsFail == mgrpc = "startFailed" /\ StartExtensionsFail

\* A Start that runs extMgr.start() in a goroutine of its own and begins its
\* loop without waiting for it.
StartLoopWithoutWaiting == StartLoop

\* Start, lines 97-113: the loop begins when extMgr.start(), if there are
\* extensions, has returned nil
ProcStartLoop ==
    /\ options.extensions > 0 => mgrpc = "running"
    /\ StartLoop

\* Start, lines 107-108: extMgr.shutdown() runs in the goroutine that has
\* received SIGTERM
InShutdown == ~exited /\ sigpc = "shutdown"

\* A Start that runs extMgr.shutdown() in a goroutine of its own and closes
\* done without waiting for it.
CloseDoneWithoutWaiting == CloseDone

\* Start, lines 108-109: done is closed when extMgr.shutdown() has returned
ProcCloseDone == mgrpc = "returned" /\ CloseDone

ProcNext ==
    \/ StartNoRuntimeAPI
    \/ \E initFails \in BOOLEAN, status \in {StatusOK, 500} :
           InStart /\ StartExtension(initFails, status)
    \/ ProcStartExtensionsFail
    \/ ProcStartLoop
    \/ Sigterm
    \/ InShutdown /\ ShutdownBegins
    \/ InShutdown /\ HookStarts
    \/ \E k \in ExtensionIds : InShutdown /\ HookReturns(k)
    \/ InShutdown /\ ShutdownReturns
    \/ ProcCloseDone
    \/ StartReturns
    \/ FetchNext
    \/ \E headers \in ProcHeaders, body \in ValidPayloads :
           NextResponse(StatusOK, headers, body)
    \/ NextResponse(500, NoHeaders, "")
    \/ NextFails
    \/ \E output \in Outputs : HandlerReturnsValue(output)
    \/ \E panicValue \in PanicValues, stack \in captureStackTrace :
           HandlerPanics(panicValue, stack)
    \/ \E status \in {StatusAccepted, 500} : PostResponse(status)
    \/ PostFails
    \/ \E k \in ExtensionIds, res \in ProcResults : ~exited /\ EventArrives(k, res)
    \/ \E k \in ExtensionIds : ~exited /\ LoopTakesResult(k)
    \/ \E k \in ExtensionIds : ~exited /\ InvokeReturns(k)
    \/ \E k \in ExtensionIds : ~exited /\ LoopSeesDone(k)

ProcSpec == ProcInit /\ [][ProcNext]_vars

----------------------------------------------------------------------------
(* SIGTERM more than once.  signal.Notify (voker.go, lines 104-105) has the
   signals sent to a channel with room for one, without blocking; the
   goroutine of lines 106-110 receives from it once.  Here the signals are
   counted as they are delivered, and the goroutine goes on when there is
   one; elsewhere the first delivery and the receive are one step. *)

\* what the delivery of a signal leaves alone
signalRest == <<made, resp, returned, inv, post, runtimeAPI, options, pc, sigpc, done,
                lc, ctxDeadline, ctxDone, handlerInput, traceEnv, active, errResp,
                passes, given, outcome, exited, exitCode, log, extensions, mgrpc,
                mdone, loop, resultCh, onSIGTERM, hookCalls, hookDeadline,
                shutdownCtx, sigtermAt, now, events, shutdownLog, startLog, startErr,
                fetching, onInvoke, logged>>

\* a process with extensions and a runtime API address
SignalInit ==
    /\ ProcInit
    /\ runtimeAPI # ""
    /\ extensions # <<>>

\* Start, lines 104-105: a SIGTERM is delivered once signal.Notify has been
\* called; whether the channel takes it or it is dropped, the process goes on
SignalDelivered ==
    /\ ~exited /\ sigpc # "none"
    /\ signals < MaxSignals
    /\ signals' = signals + 1
    /\ UNCHANGED signalRest

\* Start, line 107: <-sigterm returns when a signal has been delivered
ReceiveSigterm == signals > 0 /\ Sigterm

SignalNext ==
    \/ InStart /\ StartExtension(FALSE, StatusOK)
    \/ ProcStartLoop
    \/ SignalDelivered
    \/ ReceiveSigterm
    \/ InShutdown /\ ShutdownBegins
    \/ InShutdown /\ HookStarts
    \/ \E k \in ExtensionIds : InShutdown /\ HookReturns(k)
    \/ InShutdown /\ ShutdownReturns
    \/ \E k \in ExtensionIds : ~exited /\ LoopSeesDone(k)
    \/ ProcCloseDone
    \/ StartReturns
    \/ FetchNext
    \/ NextFails

SignalSpec == SignalInit /\ [][SignalNext]_vars

----------------------------------------------------------------------------
(* The runtime client on its own: next() is called once and is given any
   response, then success() or failure() is called on the invocation it
   returned and post() is given any response.  resp is the response, returned
   what the call gave back. *)

\* the status codes of the responses the client is given
ClientStatuses == {StatusOK, 201, StatusAccepted, 204, 404, 500}

\* what the calls of the client leave alone
clientRest == <<made, signals, runtimeAPI, options, pc, sigpc, done, lc, ctxDeadline, ctxDone,
                handlerInput, traceEnv, active, errResp, passes, given, outcome,
                exited, exitCode, log, extensions, mgrpc, mdone, loop,
                resultCh, onSIGTERM, hookCalls, hookDeadline, shutdownCtx,
                sigtermAt, now, events, shutdownLog, startLog, startErr, fetching,
                onInvoke, logged>>

ClientInit ==
    /\ runtimeAPI = "127.0.0.1:9001"
    /\ options = [enableTraceID |-> FALSE, extensions |-> 0]
    /\ InitLocals
    /\ NoManager

\* next(), lines 60-88: the response is there and its body, if the status
\* lets next() read it, is read to its end
ClientNext(status, headers, body) ==
    /\ resp = NoResponse
    /\ resp' = [method |-> "GET", status |-> status, headers |-> headers,
                body |-> body, read |-> status = StatusOK]
    /\ returned' = next(status, headers, body)
    /\ inv' = returned'.inv
    /\ UNCHANGED <<clientRest, post>>

\* next(), lines 77-80: the status is 200 and io.ReadAll fails
ClientNextReadFails(headers, body) ==
    /\ resp = NoResponse
    /\ resp' = [method |-> "GET", status |-> StatusOK, headers |-> headers,
                body |-> body, read |-> FALSE]
    /\ returned' = [ok |-> FALSE, inv |-> NoInvocation]
    /\ UNCHANGED <<clientRest, inv, post>>

\* the response to a POST, whose body post() only drains
PostResponseOf(status) ==
    [method |-> "POST", status |-> status, headers |-> NoHeaders, body |-> "",
     read |-> FALSE]

\* invocation.success, lines 92-95, and post(), lines 104-129
ClientSuccess(responsePayload, status) ==
    /\ inv # NoInvocation /\ post = NoPost
    /\ post' = success(inv, responsePayload)
    /\ resp' = PostResponseOf(status)
    /\ returned' = [ok |-> postOK(status), inv |-> NoInvocation]
    /\ UNCHANGED <<clientRest, inv>>

\* invocation.failure, lines 99-102, and post(), lines 104-129
ClientFailure(errorPayload, status) ==
    /\ inv # NoInvocation /\ post = NoPost
    /\ post' = failure(inv, errorPayload)
    /\ resp' = PostResponseOf(status)
    /\ returned' = [ok |-> postOK(status), inv |-> NoInvocation]
    /\ UNCHANGED <<clientRest, inv>>

ClientSpecNext ==
    \/ \E status \in ClientStatuses, headers \in NextHeaders, body \in Payloads :
           ClientNext(status, headers, body)
    \/ \E headers \in NextHeaders, body \in Payloads :
           ClientNextReadFails(headers, body)
    \/ \E responsePayload \in Payloads, status \in ClientStatuses :
           ClientSuccess(responsePayload, status)
    \/ \E errorPayload \in Payloads, status \in ClientStatuses :
           ClientFailure(errorPayload, status)

ClientSpec == ClientInit /\ [][ClientSpecNext]_vars

----------------------------------------------------------------------------
(* The error records on their own: getErrorType, newErrorResponse and
   newPanicResponse are called once with any error or panic value.  made is
   the call: the function, the value it was given, whether the call itself
   panicked, and the type tag it came to; errResp is the record. *)

\* the messages of the values
ValueMessages == {"boom", "oh no!", ""}

\* The dynamic types of the errors: name, pointer, name of the type pointed
\* to, %T text.
ErrorTypes ==
    {<<"", TRUE, "errorString", "*errors.errorString">>,
     <<"", TRUE, "wrapError", "*fmt.wrapError">>,
     <<"", TRUE, "wrapErrors", "*fmt.wrapErrors">>,
     <<"", TRUE, "joinError", "*errors.joinError">>,
     <<"", TRUE, "ErrorResponse", "*voker.ErrorResponse">>,
     <<"customError", FALSE, "", "voker.customError">>,
     <<"errors", FALSE, "", "main.errors">>,
     <<"", FALSE, "", "struct { error }">>,
     <<"", TRUE, "", "*struct { error }">>}

\* the dynamic types of the values a handler can panic with: an error, or
\* any other value
PanicTypes ==
    ErrorTypes \cup
    {<<"string", FALSE, "", "string">>,
     <<"", FALSE, "", "[]int">>,
     <<"", FALSE, "", "[]main.Item">>}

ValuesOf(types) ==
    {GoValue(t[1], t[2], t[3], t[4], msg, <<>>) : t \in types, msg \in ValueMessages}

ErrorValues == ValuesOf(ErrorTypes)

AnyValues == ValuesOf(PanicTypes) \cup {NilValue}

\* what the making of a record leaves alone
recordRest == <<signals, runtimeAPI, options, pc, sigpc, done, inv, lc, ctxDeadline, ctxDone,
                handlerInput, traceEnv, active, post, passes, given, outcome,
                exited, exitCode, log, resp, returned, extensions, mgrpc, mdone,
                loop, resultCh, onSIGTERM, hookCalls, hookDeadline, shutdownCtx,
                sigtermAt, now, events, shutdownLog, startLog, startErr, fetching,
                onInvoke, logged>>

RecordInit ==
    /\ runtimeAPI = "127.0.0.1:9001"
    /\ options = [enableTraceID |-> FALSE, extensions |-> 0]
    /\ InitLocals
    /\ NoManager

\* getErrorType(err), lines 225-256
GetErrorType(err) ==
    /\ made = NoneMade
    /\ made' = [fn |-> "getErrorType", of |-> err, panicked |-> FALSE,
                tag |-> getErrorType(err)]
    /\ UNCHANGED <<recordRest, errResp>>

\* newErrorResponse(err), lines 215-222, for an error that is not nil
NewErrorResponse(err) ==
    /\ made = NoneMade
    /\ errResp' = newErrorResponse(err)
    /\ made' = [fn |-> "newErrorResponse", of |-> err, panicked |-> FALSE,
                tag |-> errResp'.Type]
    /\ UNCHANGED recordRest

\* newErrorResponse(nil): getErrorType returns (line 216), then err.Error()
\* of line 219 is a call on the nil interface, which panics
NewErrorResponseOfNil ==
    /\ made = NoneMade
    /\ made' = [fn |-> "newErrorResponse", of |-> NilValue, panicked |-> TRUE,
                tag |-> getErrorType(NilValue)]
    /\ UNCHANGED <<recordRest, errResp>>

\* newPanicResponse(panicValue), lines 259-268
NewPanicResponse(panicValue, stack) ==
    /\ made = NoneMade
    /\ errResp' = newPanicResponse(panicValue, stack)
    /\ made' = [fn |-> "newPanicResponse", of |-> panicValue, panicked |-> FALSE,
                tag |-> errResp'.Type]
    /\ UNCHANGED recordRest

RecordNext ==
    \/ \E err \in ErrorValues \cup {NilValue} : GetErrorType(err)
    \/ \E err \in ErrorValues : NewErrorResponse(err)
    \/ NewErrorResponseOfNil
    \/ \E panicValue \in AnyValues, stack \in captureStackTrace :
           NewPanicResponse(panicValue, stack)

RecordSpec == RecordInit /\ [][RecordNext]_vars

----------------------------------------------------------------------------
(* Reading the log *)

Idx == 1..Len(log)

\* how many entries e there are among the first k entries of the log
CountIn(k, e) == Cardinality({i \in 1..k : log[i].e = e})

Count(e) == CountIn(Len(log), e)

\* a pass starts at each "next" and lasts until the entry before the next one
PassStarts == {n \in Idx : log[n].e = "next"}

PassEnd(n) ==
    LET later == {m \in (n + 1)..Len(log) : log[m].e = "next"}
    IN  IF later = {} THEN Len(log)
        ELSE (CHOOSE m \in later : \A x \in later : m <= x) - 1

\* the entries e of the pass that starts at n
PassEvents(n, e) == {k \in n..PassEnd(n) : log[k].e = e}

\* the pass that starts at n fetched an invocation / has returned
Fetched(n) == PassEvents(n, "inv") # {}

Returned(n) == PassEvents(n, "return") # {}

\* what the pass that starts at n fetched, and what it returned
RequestIDOf(n) == log[CHOOSE k \in PassEvents(n, "inv") : TRUE].rid

ReturnOf(n) == log[CHOOSE k \in PassEvents(n, "return") : TRUE].info

\* the URLs of the two reports for a request id
responseURL(rid) ==
    "http://" \o runtimeAPI \o "/2018-06-01/runtime/invocation/" \o rid \o "/response"

errorURL(rid) ==
    "http://" \o runtimeAPI \o "/2018-06-01/runtime/invocation/" \o rid \o "/error"

\* the reports of either kind the pass that starts at n has sent
SuccessReports(n) ==
    {k \in PassEvents(n, "post") : Fetched(n) /\ log[k].info = responseURL(RequestIDOf(n))}

FailureReports(n) ==
    {k \in PassEvents(n, "post") : Fetched(n) /\ log[k].info = errorURL(RequestIDOf(n))}

----------------------------------------------------------------------------
(* C1: the main loop never has more than one invocation in flight.  At most
   one handler call is active; at most one fetched invocation is unreported;
   and whenever GET .../next is sent, every earlier pass is over: its handler
   call has returned, its report has been sent and answered, and
   handleInvocation has returned. *)
C1_OneInvocationInFlight ==
    /\ active <= 1
    /\ Count("call") - Count("ret") = active
    /\ Count("inv") - Count("ack") \in {0, 1}
    /\ \A n \in PassStarts :
           /\ CountIn(n - 1, "next") = CountIn(n - 1, "return")
           /\ CountIn(n - 1, "call") = CountIn(n - 1, "ret")
           /\ CountIn(n - 1, "inv") = CountIn(n - 1, "post")
           /\ CountIn(n - 1, "post") = CountIn(n - 1, "ack")
    /\ pc = "next" => active = 0 /\ post = NoPost

\* a second invocation is being handled after the first was reported
C1_Witness ==
    /\ passes = 2
    /\ pc = "handler"
    /\ active = 1
    /\ Count("ack") = 1
    /\ Count("ret") = 1

----------------------------------------------------------------------------
(* C2: every pass that fetched an invocation and has returned sent exactly
   one report, reportSuccess or reportFailure; a report is only ever sent by
   a pass that fetched an invocation, to the request id that fetch returned,
   after the fetch was answered and before the pass returns (so before any
   later fetch). *)
C2_ExactlyOneReport ==
    \A n \in PassStarts :
        LET posts == PassEvents(n, "post")
        IN  /\ Cardinality(posts) <= 1
            /\ posts = SuccessReports(n) \cup FailureReports(n)
            /\ SuccessReports(n) \cap FailureReports(n) = {}
            /\ \A k \in posts :
                   /\ \E i \in PassEvents(n, "inv") : i < k
                   /\ \A r \in PassEvents(n, "return") : k < r
            /\ Fetched(n) /\ Returned(n) => Cardinality(posts) = 1

\* one pass reported a success, another one a failure, both have returned
C2_Witness ==
    \E n, m \in PassStarts :
        /\ n < m
        /\ Returned(n) /\ Returned(m)
        /\ SuccessReports(n) # {}
        /\ FailureReports(m) # {}
        /\ RequestIDOf(n) # RequestIDOf(m)

----------------------------------------------------------------------------
(* The last pass.  given and outcome describe it until the next one begins. *)

Last ==
    IF PassStarts = {} THEN 0
    ELSE CHOOSE n \in PassStarts : \A m \in PassStarts : m <= n

LastReturned == Last # 0 /\ Returned(Last)

\* the report of the last pass was answered 202 / was not
LastAccepted == \E k \in PassEvents(Last, "ack") : log[k].info = "ok"

LastRejected == \E k \in PassEvents(Last, "ack") : log[k].info = "failed"

\* the last pass has sent exactly one report, a reportFailure for its request
ReportedFailureOnce ==
    /\ Last # 0
    /\ Cardinality(PassEvents(Last, "post")) = 1
    /\ Cardinality(FailureReports(Last)) = 1
    /\ SuccessReports(Last) = {}

\* the record being reported has no stack frames, nor has the POST's body
NoStackFrames ==
    /\ PassEvents(Last, "log") # {}
    /\ \A k \in PassEvents(Last, "log") : log[k].info = ""
    /\ pc = "failure" =>
           /\ errResp.StackTrace = <<>>
           /\ ~Contains(post.body, "stackTrace")

\* the record being reported has stack frames, and so has the POST's body
SomeStackFrames ==
    /\ PassEvents(Last, "log") # {}
    /\ \A k \in PassEvents(Last, "log") : log[k].info = "stack"
    /\ pc = "failure" =>
           /\ Len(errResp.StackTrace) > 0
           /\ Contains(post.body, ",\"stackTrace\":[{")

\* the process has been ended with code 1 by the last pass
ExitedOne ==
    /\ exited /\ exitCode = 1 /\ pc = "exited"
    /\ \E k \in PassEvents(Last, "exit") : log[k].info = "1"
    /\ ~ENABLED FetchNext

\* the loop is at its select and the next fetch is what it does next
LoopGoesOn ==
    /\ ~exited /\ pc = "select"
    /\ passes < MaxPasses => ENABLED FetchNext
    /\ ~ENABLED StartReturns

\* ... or, when done has been closed meanwhile, Start returns
LoopGoesOnUnlessDone ==
    IF exited
    THEN pc = "exited" /\ exitCode = 0 /\ done
    ELSE /\ pc = "select"
         /\ done => ENABLED StartReturns /\ ~ENABLED FetchNext
         /\ ~done => ~ENABLED StartReturns /\ (passes < MaxPasses => ENABLED FetchNext)

----------------------------------------------------------------------------
(* C3, as claimed: when the handler returns an ordinary failure, the pass
   sends exactly one reportFailure for the request and no reportSuccess, the
   record has no stack frames, handleInvocation returns no error and the
   loop goes on to the next fetch. *)
C3_AsClaimed ==
    outcome.how = "error" =>
        /\ ReportedFailureOnce
        /\ NoStackFrames
        /\ pc # "failure" =>
               /\ LastReturned /\ ReturnOf(Last) = "nil"
               /\ LoopGoesOn

(* C3, amended: when the handler returns an ordinary failure, the pass sends
   exactly one reportFailure for the request and no reportSuccess, and the
   record has no stack frames.  If the report is accepted (202),
   handleInvocation returns no error and the loop goes on: to the next
   fetch, or, if done has been closed, to the return of Start.  If the
   report is not accepted, handleInvocation returns an error and the process
   exits with code 1. *)
C3_OrdinaryFailure ==
    outcome.how = "error" =>
        /\ ReportedFailureOnce
        /\ NoStackFrames
        /\ pc # "failure" =>
               /\ LastReturned
               /\ LastAccepted => ReturnOf(Last) = "nil" /\ LoopGoesOnUnlessDone
               /\ ~LastAccepted => ReturnOf(Last) = errSendError /\ ExitedOne

\* the handler returned a failure, the report was accepted, the loop is at its select
C3_Witness ==
    /\ outcome.how = "error"
    /\ LastReturned /\ LastAccepted
    /\ pc = "select" /\ ~done

----------------------------------------------------------------------------
(* C4, as claimed: when the handler panics, exactly one reportFailure with a
   non-empty stack trace is sent for the request, handleInvocation returns
   the handler-panicked error, and the process exits with code 1 without any
   further fetch. *)
C4_AsClaimed ==
    outcome.how = "panic" =>
        /\ ReportedFailureOnce
        /\ SomeStackFrames
        /\ pc # "failure" =>
               /\ LastReturned /\ ReturnOf(Last) = errHandlerPanicked
               /\ ExitedOne

(* C4, amended: when the handler panics, exactly one reportFailure with a
   non-empty stack trace is sent for the request, and the process exits with
   code 1 without any further fetch; handleInvocation returns the
   handler-panicked error if the report is accepted, and the error of the
   failed report if it is not. *)
C4_Panic ==
    outcome.how = "panic" =>
        /\ ReportedFailureOnce
        /\ SomeStackFrames
        /\ pc # "failure" =>
               /\ LastReturned
               /\ ReturnOf(Last) = IF LastAccepted THEN errHandlerPanicked
                                   ELSE errSendError
               /\ ExitedOne

\* the handler panicked, the report was accepted, the process has exited
C4_Witness ==
    /\ outcome.how = "panic"
    /\ LastReturned /\ LastAccepted
    /\ exited /\ exitCode = 1

----------------------------------------------------------------------------
\* the pass that begins at n ended the process with code 1
Escalated(n) == \E k \in PassEvents(n, "exit") : log[k].info = "1"

\* the fetch of pass n failed, its report was not accepted, or the record it
\* reported carries stack frames
EscalationCause(n) ==
    \/ PassEvents(n, "nextfail") # {}
    \/ \E k \in PassEvents(n, "ack") : log[k].info = "failed"
    \/ \E k \in PassEvents(n, "log") : log[k].info = "stack"

\* the last pass reported a record without stack frames and the report was accepted
AcceptedPlainFailure ==
    /\ LastReturned /\ LastAccepted
    /\ FailureReports(Last) # {}
    /\ \A k \in PassEvents(Last, "log") : log[k].info = ""

(* C5, as claimed: a pass ends the process if and only if its fetch failed,
   its report failed, or the record it reported has stack frames; a pass
   whose failure report without stack frames is accepted does not end the
   process and is followed by the next fetch. *)
C5_AsClaimed ==
    /\ \A n \in PassStarts : Returned(n) => (Escalated(n) <=> EscalationCause(n))
    /\ AcceptedPlainFailure => ~Escalated(Last) /\ LoopGoesOn

(* C5, amended: a pass ends the process (exit code 1) if and only if its
   fetch failed, its report failed, or the record it reported has stack
   frames; a pass whose failure report without stack frames is accepted does
   not end the process and is followed by the next fetch, unless done has
   been closed, in which case Start returns. *)
C5_Escalation ==
    /\ \A n \in PassStarts : Returned(n) => (Escalated(n) <=> EscalationCause(n))
    /\ AcceptedPlainFailure => ~Escalated(Last) /\ LoopGoesOnUnlessDone

\* a first pass reported a plain failure and went on, the second one escalated
C5_Witness ==
    \E n, m \in PassStarts :
        /\ n < m
        /\ Returned(n) /\ FailureReports(n) # {} /\ ~Escalated(n)
        /\ Returned(m) /\ Escalated(m)
        /\ \E k \in PassEvents(m, "ack") : log[k].info = "failed"

----------------------------------------------------------------------------
\* the last pass has sent exactly one report, a reportSuccess for its request
ReportedSuccessOnce ==
    /\ Last # 0
    /\ Cardinality(PassEvents(Last, "post")) = 1
    /\ Cardinality(SuccessReports(Last)) = 1
    /\ FailureReports(Last) = {}
    /\ PassEvents(Last, "log") = {}
    /\ pc = "success" =>
           /\ post.url = responseURL(inv.requestID)
           /\ post.body = "{\"message\":\"" \o outcome.Message \o "\"}"

(* C6, as claimed: when the payload decodes, the handler returns a value and
   the value encodes, the pass sends exactly one reportSuccess to
   /{requestID}/response with the JSON encoding of the output as its body,
   sends no reportFailure, and returns without error. *)
C6_AsClaimed ==
    outcome.how = "value" /\ outcome.supported =>
        /\ given.payload = "valid"
        /\ ReportedSuccessOnce
        /\ pc # "success" => LastReturned /\ ReturnOf(Last) = "nil"

(* C6, amended: when the payload decodes, the handler returns a value and
   the value encodes, the pass sends exactly one reportSuccess to
   /{requestID}/response with the JSON encoding of the output as its body
   and sends no reportFailure; it returns without error if the report is
   accepted (202), and with an error, on which the process exits with code
   1, if it is not. *)
C6_Success ==
    outcome.how = "value" /\ outcome.supported =>
        /\ given.payload = "valid"
        /\ ReportedSuccessOnce
        /\ pc # "success" =>
               /\ LastReturned
               /\ LastAccepted => ReturnOf(Last) = "nil" /\ ~Escalated(Last)
               /\ ~LastAccepted => ReturnOf(Last) = errSendSuccess /\ ExitedOne

\* the handler's "hello world" has been reported and the report accepted
C6_Witness ==
    /\ outcome = [how |-> "value", supported |-> TRUE, Message |-> "hello world"]
    /\ LastReturned /\ LastAccepted
    /\ SuccessReports(Last) # {}
    /\ pc = "select"

----------------------------------------------------------------------------
\* the handler was not invoked in the last pass
HandlerNotInvoked == PassEvents(Last, "call") = {} /\ PassEvents(Last, "ret") = {}

\* the record being reported has this errorType, in the record and in the body
ReportedType(t) ==
    pc = "failure" =>
        /\ errResp.Type = t
        /\ HasPrefix(post.body, "{\"errorType\":\"" \o t \o "\",\"errorMessage\":\"")

(* C7, as claimed: if the payload cannot be decoded into the handler's input
   type, the handler is never invoked, exactly one reportFailure with
   errorType Runtime.UnmarshalError and no stack trace is sent for the
   request, and the pass is not fatal. *)
C7_AsClaimed ==
    given.payload = "malformed" =>
        /\ HandlerNotInvoked
        /\ ReportedFailureOnce
        /\ NoStackFrames
        /\ ReportedType("Runtime.UnmarshalError")
        /\ pc # "failure" =>
               LastReturned /\ ReturnOf(Last) = "nil" /\ ~Escalated(Last)

(* C7, amended: if the payload cannot be decoded into the handler's input
   type, the handler is never invoked and exactly one reportFailure without
   stack trace is sent for the request.  Its errorType is
   Runtime.UnmarshalError if the deadline, identity and client-context
   metadata of the invocation parse, and Runtime.HandlerError if they do not
   (they are parsed first).  The pass is not fatal if the report is
   accepted; if it is not, the process exits with code 1. *)
C7_UnmarshalError ==
    given.payload = "malformed" =>
        /\ HandlerNotInvoked
        /\ ReportedFailureOnce
        /\ NoStackFrames
        /\ ReportedType(IF given.metadata = "valid" THEN "Runtime.UnmarshalError"
                        ELSE "Runtime.HandlerError")
        /\ pc # "failure" =>
               /\ LastReturned
               /\ LastAccepted => ReturnOf(Last) = "nil" /\ ~Escalated(Last)
               /\ ~LastAccepted => ReturnOf(Last) = errSendError /\ ExitedOne

\* an undecodable payload with good metadata is being reported
C7_Witness ==
    /\ given.metadata = "valid" /\ given.payload = "malformed"
    /\ pc = "failure"
    /\ errResp.Type = "Runtime.UnmarshalError"
    /\ post.url = errorURL(inv.requestID)

----------------------------------------------------------------------------
(* C8: if the fetch of the next invocation fails (no answer, or a status
   other than 200), the pass invokes no handler and sends no report, the
   fetch is not retried, and the process exits with code 1. *)
C8_FetchFails ==
    \A n \in PassStarts :
        PassEvents(n, "nextfail") # {} =>
            /\ PassEvents(n, "call") = {}
            /\ PassEvents(n, "post") = {}
            /\ PassEvents(n, "inv") = {}
            /\ n = Last /\ Count("next") = passes
            /\ Returned(n) /\ ReturnOf(n) = errNext
            /\ Escalated(n)
            /\ ExitedOne
            /\ active = 0 /\ post = NoPost

\* the second fetch was answered with a status other than 200
C8_Witness ==
    /\ passes = 2
    /\ \E k \in PassEvents(Last, "nextfail") : log[k].info = "status"
    /\ exited /\ exitCode = 1

----------------------------------------------------------------------------
(* C9, as claimed: if the deadline is missing or not a base-10 integer, or
   an identity or client-context blob is present and cannot be decoded, the
   handler is not invoked, exactly one reportFailure with a handler-level
   record without stack frames is sent for the request, and the pass is not
   fatal: the loop goes on to the next fetch. *)
C9_AsClaimed ==
    given.metadata = "invalid" =>
        /\ HandlerNotInvoked
        /\ ReportedFailureOnce
        /\ NoStackFrames
        /\ ReportedType("Runtime.HandlerError")
        /\ pc # "failure" =>
               /\ LastReturned /\ ReturnOf(Last) = "nil" /\ ~Escalated(Last)
               /\ LoopGoesOn

(* C9, amended: if the deadline is missing or not a base-10 integer, or an
   identity or client-context blob is present and cannot be decoded, the
   handler is not invoked and exactly one reportFailure with a handler-level
   record without stack frames is sent for the request.  If the report is
   accepted the pass is not fatal and the loop goes on: to the next fetch,
   or, if done has been closed, to the return of Start.  If the report is
   not accepted the process exits with code 1. *)
C9_BadMetadata ==
    given.metadata = "invalid" =>
        /\ HandlerNotInvoked
        /\ ReportedFailureOnce
        /\ NoStackFrames
        /\ ReportedType("Runtime.HandlerError")
        /\ pc # "failure" =>
               /\ LastReturned
               /\ LastAccepted =>
                      /\ ReturnOf(Last) = "nil" /\ ~Escalated(Last)
                      /\ LoopGoesOnUnlessDone
               /\ ~LastAccepted => ReturnOf(Last) = errSendError /\ ExitedOne

\* bad metadata was reported, the report accepted, and the loop is at its select
C9_Witness ==
    /\ given.metadata = "invalid"
    /\ LastReturned /\ LastAccepted
    /\ FailureReports(Last) # {}
    /\ pc = "select" /\ ~done /\ passes = 1

----------------------------------------------------------------------------
(* C10, as claimed: if the handler returns a value that cannot be encoded,
   exactly one reportFailure with errorType Runtime.MarshalError and no stack
   frames is sent, no reportSuccess is sent for the request, and the pass is
   not fatal. *)
C10_AsClaimed ==
    outcome.how = "value" /\ ~outcome.supported =>
        /\ ReportedFailureOnce
        /\ NoStackFrames
        /\ ReportedType("Runtime.MarshalError")
        /\ pc # "failure" =>
               LastReturned /\ ReturnOf(Last) = "nil" /\ ~Escalated(Last)

(* C10, amended: if the handler returns a value that cannot be encoded,
   exactly one reportFailure with errorType Runtime.MarshalError and no stack
   frames is sent and no reportSuccess is sent for the request; the pass is
   not fatal if the report is accepted, and if it is not, the process exits
   with code 1. *)
C10_MarshalError ==
    outcome.how = "value" /\ ~outcome.supported =>
        /\ ReportedFailureOnce
        /\ NoStackFrames
        /\ ReportedType("Runtime.MarshalError")
        /\ pc # "failure" =>
               /\ LastReturned
               /\ LastAccepted => ReturnOf(Last) = "nil" /\ ~Escalated(Last)
               /\ ~LastAccepted => ReturnOf(Last) = errSendError /\ ExitedOne

\* an output that cannot be encoded was reported and the report accepted
C10_Witness ==
    /\ outcome.how = "value" /\ ~outcome.supported
    /\ LastReturned /\ LastAccepted
    /\ FailureReports(Last) # {}
    /\ ~exited

----------------------------------------------------------------------------
(* C11: an Error Record with stack frames comes from a recovered panic; the
   records of a failure returned by the handler (even an *ErrorResponse that
   has stack frames itself), of a metadata failure, of a decode failure and
   of an encode failure have none. *)
C11_StackOnlyFromPanic ==
    /\ pc = "failure" /\ Len(errResp.StackTrace) > 0 => outcome.how = "panic"
    /\ pc = "failure" /\ Contains(post.body, "stackTrace") => outcome.how = "panic"
    /\ Last # 0 =>
           \A k \in PassEvents(Last, "log") :
               log[k].info = "stack" => outcome.how = "panic"
    /\ \/ outcome.how = "error"
       \/ outcome.how = "value" /\ ~outcome.supported
       \/ given.metadata = "invalid"
       \/ given.payload = "malformed"
       => NoStackFrames

\* the handler returned its own *ErrorResponse, which is reported without frames
C11_Witness ==
    /\ pc = "failure"
    /\ outcome.how = "error"
    /\ errResp.Type = "Runtime.ErrorResponse"
    /\ errResp.StackTrace = <<>>
    /\ \E e \in HandlerErrors : e.elem = "ErrorResponse" /\ Len(e.frames) > 0

----------------------------------------------------------------------------
(* C12: the deadline is advisory.  While the handler runs nothing is reported
   and the call is not given up, whether or not the deadline has passed; and
   when the handler returns after the deadline has passed, what is reported
   is what the handler returned: a reportSuccess with the encoded output for
   a value, a reportFailure with the record of its error or panic
   otherwise. *)
C12_DeadlineAdvisory ==
    /\ pc = "handler" =>
           /\ active = 1
           /\ PassEvents(Last, "ret") = {} /\ PassEvents(Last, "post") = {}
    /\ ctxDone /\ pc \in {"success", "failure"} =>
           /\ PassEvents(Last, "call") # {} /\ PassEvents(Last, "ret") # {}
           /\ outcome.how \in {"value", "error", "panic"}
           /\ active = 0
    /\ ctxDone /\ pc = "success" =>
           /\ outcome.how = "value" /\ outcome.supported
           /\ post = [url |-> responseURL(inv.requestID),
                      body |-> "{\"message\":\"" \o outcome.Message \o "\"}"]
    /\ ctxDone /\ pc = "failure" =>
           /\ post.url = errorURL(inv.requestID)
           /\ outcome.how = "value" =>
                  ~outcome.supported /\ errResp.Type = "Runtime.MarshalError"
           /\ outcome.how = "error" =>
                  errResp.Type \in {"Runtime.HandlerError", "Runtime.ErrorResponse"}
           /\ outcome.how = "panic" => errResp.Type = "Runtime.Panic.string"
           /\ ~Contains(errResp.Message, "deadline")

\* the handler returned "hello world" after the deadline, and it is reported
C12_Witness ==
    /\ ctxDone /\ pc = "success"
    /\ outcome.how = "value" /\ outcome.Message = "hello world"
    /\ post.body = "{\"message\":\"hello world\"}"

----------------------------------------------------------------------------
(* C13, as claimed: with trace propagation enabled, whenever the handler runs
   the trace slot holds the trace token of the invocation it runs for; with
   trace propagation disabled the slot is never written. *)
C13_AsClaimed ==
    /\ options.enableTraceID /\ pc = "handler" => traceEnv = inv.headers.traceId
    /\ ~options.enableTraceID => traceEnv = ""

\* the handler runs for an invocation without trace token while the slot
\* holds the token of an earlier invocation
C13_StaleToken ==
    /\ options.enableTraceID /\ pc = "handler"
    /\ inv.headers.traceId = ""
    /\ traceEnv # ""
    /\ passes = 2

----------------------------------------------------------------------------
(* C14: for every invocation that ends in an Error Record the error log line
   (which says whether the record has stack frames) is written exactly once,
   before the failure report is sent, also when the report then fails; an
   invocation that is reported as a success writes none. *)
C14_LogBeforeReport ==
    /\ \A n \in PassStarts :
           LET logs == PassEvents(n, "log")
           IN  /\ Cardinality(logs) <= 1
               /\ logs # {} <=> FailureReports(n) # {}
               /\ SuccessReports(n) # {} => logs = {}
               /\ \A l \in logs :
                      /\ log[l].rid = RequestIDOf(n)
                      /\ \A k \in PassEvents(n, "post") : l < k
                      /\ \A k \in PassEvents(n, "ack") : l < k
    /\ pc = "failure" =>
           \A l \in PassEvents(Last, "log") :
               log[l].info = "stack" <=> Len(errResp.StackTrace) > 0

\* an error was logged once and its report was then not accepted
C14_Witness ==
    /\ LastReturned /\ LastRejected
    /\ FailureReports(Last) # {}
    /\ Cardinality(PassEvents(Last, "log")) = 1

----------------------------------------------------------------------------
(* C15: while the handler runs, the LambdaContext in its context is that of
   the invocation being processed: the request id and function ARN of the
   last fetch and its decoded identity and client context, a field the
   invocation does not have being empty. *)
C15_ContextOfThisInvocation ==
    pc = "handler" =>
        /\ lc.AwsRequestID = inv.requestID
        /\ lc.AwsRequestID = RequestIDOf(Last)
        /\ lc.InvokedFunctionArn = inv.headers.functionArn
        /\ lc.Identity = IF inv.headers.cognitoIdentity = "" THEN "" ELSE "id-123"
        /\ lc.ClientContext = IF inv.headers.clientContext = "" THEN "" ELSE "value"

\* the handler runs for a second invocation, one without identity, client
\* context or function ARN
C15_Witness ==
    /\ passes = 2 /\ pc = "handler"
    /\ lc = [AwsRequestID |-> "req-2", InvokedFunctionArn |-> "", Identity |-> "",
             ClientContext |-> ""]
    /\ \E n \in PassStarts : n < Last /\ RequestIDOf(n) = "req-1"

----------------------------------------------------------------------------
(* Reading shutdownLog *)

ShutdownIdx(e, k) == {i \in 1..Len(shutdownLog) : shutdownLog[i].e = e /\ shutdownLog[i].k = k}

\* the extensions that have an OnSIGTERM
WithHook == {k \in Exts : extensions[k].OnSIGTERM}

\* shutdown() has been called
ShuttingDown == mgrpc \in {"hooks", "returned"}

----------------------------------------------------------------------------
(* C16: on shutdown the OnSIGTERM of every extension that has one is called
   exactly once, one at a time and in the order of registration (the hook
   of a later extension is called only when those of the earlier ones have
   returned), whether or not the event loop of the extension still runs. *)
C16_HooksOnceInOrder ==
    /\ \A k \in Exts :
           /\ hookCalls[k] <= 1
           /\ hookCalls[k] = Cardinality(ShutdownIdx("call", k))
           /\ k \notin WithHook => hookCalls[k] = 0
           /\ ~ShuttingDown => hookCalls[k] = 0
    /\ Cardinality(HookRunning) <= 1
    /\ \A j, k \in WithHook :
           j < k /\ hookCalls[k] > 0 =>
               /\ onSIGTERM[j] = "returned"
               /\ \A b \in ShutdownIdx("back", j), c \in ShutdownIdx("call", k) : b < c
    /\ mgrpc = "returned" =>
           \A k \in WithHook : hookCalls[k] = 1 /\ onSIGTERM[k] = "returned"

\* the second hook runs, the first has returned; the event loop of the
\* second extension has returned already, that of the first has not
C16_Witness ==
    /\ Len(extensions) = 2
    /\ onSIGTERM = <<"returned", "running">>
    /\ loop = <<"select", "exited">>

----------------------------------------------------------------------------
(* C17: shutdown() returns only when every event loop that was started has
   returned: when it returns no event loop waits for a fetch or runs an
   OnInvoke. *)
C17_ShutdownWaitsForLoops ==
    mgrpc = "returned" =>
        \A k \in Exts : loop[k] = "exited" /\ loop[k] \notin {"select", "invoke"}

\* shutdown() has returned; both event loops had run and an event was handled
C17_Witness ==
    /\ mgrpc = "returned"
    /\ Len(extensions) = 2
    /\ events > 0
    /\ \A k \in Exts : loop[k] = "exited"

----------------------------------------------------------------------------
(* C18: every call of an OnSIGTERM begins after done has been closed and has
   returned before shutdown() returns. *)
C18_HooksBetweenDoneAndReturn ==
    /\ \A k \in Exts :
           /\ onSIGTERM[k] # "idle" => mdone
           /\ \A c \in ShutdownIdx("call", k) :
                  /\ \E d \in ShutdownIdx("done", 0) : d < c
                  /\ \A r \in ShutdownIdx("return", 0) :
                         \E b \in ShutdownIdx("back", k) : c < b /\ b < r
    /\ mgrpc = "returned" => HookRunning = {}
    /\ ShutdownIdx("return", 0) # {} <=> mgrpc = "returned"

\* shutdown() has returned after two hooks that took their time
C18_Witness ==
    /\ mgrpc = "returned"
    /\ Cardinality(WithHook) = 2
    /\ \A k \in WithHook : onSIGTERM[k] = "returned"
    /\ now > sigtermAt

----------------------------------------------------------------------------
(* C19: once done is closed every event loop returns, also one whose fetch
   the Extensions API never answers, and so shutdown() returns -- the hooks
   being assumed to return. *)
C19_ShutdownCompletes ==
    /\ mdone ~> (\A k \in Exts : loop[k] = "exited")
    /\ mdone ~> (mgrpc = "returned")

\* shutdown() has returned although the Extensions API answered no fetch
C19_Witness ==
    /\ mgrpc = "returned"
    /\ Len(extensions) = 2
    /\ events = 0
    /\ \A k \in Exts : loop[k] = "exited"

----------------------------------------------------------------------------
(* C20: every OnSIGTERM is called with a context whose deadline is at most
   500ms after shutdown() was called for the signal; it is the same for all
   hooks, however long the hooks before took. *)
C20_HookDeadline ==
    \A k \in Exts :
        hookCalls[k] > 0 =>
            /\ hookDeadline[k] <= sigtermAt + 500
            /\ hookDeadline[k] = shutdownCtx
            /\ \A j \in Exts : hookCalls[j] > 0 => hookDeadline[j] = hookDeadline[k]

\* the second hook is called when the first has used up the 500ms
C20_Witness ==
    /\ Len(extensions) = 2
    /\ onSIGTERM = <<"returned", "running">>
    /\ \E c \in ShutdownIdx("call", 2) : shutdownLog[c].at >= sigtermAt + 500
    /\ hookDeadline[2] = sigtermAt + 500

----------------------------------------------------------------------------
(* Reading startLog *)

StartIdx(e) == {i \in 1..Len(startLog) : startLog[i].e = e}

\* the calls of start() that returned an error
StartFailures == {i \in 1..Len(startLog) : startLog[i].err # "nil"}

\* the register calls made for extension k
Registrations(k) == {i \in StartIdx("register") : startLog[i].k = k}

\* the main loop has not sent a single GET .../next
NothingFetched == passes = 0 /\ Count("next") = 0 /\ Count("inv") = 0

----------------------------------------------------------------------------
(* C21: when an OnInit returns an error or a registration fails, start()
   returns an error at once: the failed call is the last thing start() does
   (no later extension has its OnInit called or is registered, and the
   extension whose OnInit failed is not registered), no event loop is
   started for it, and Start can only call os.Exit(1): the main loop does not
   begin and fetches no invocation, and the process, once ended, has ended
   with code 1. *)
C21_StartupAborted ==
    StartFailures # {} =>
        /\ StartFailures = {Len(startLog)}
        /\ mgrpc = "startFailed"
        /\ startErr # "nil"
        /\ loop[startLog[Len(startLog)].k] = "none"
        /\ \A j \in Exts : j > startLog[Len(startLog)].k => loop[j] = "none"
        /\ NothingFetched
        /\ sigpc = "none" /\ ~mdone /\ ~done
        /\ IF exited
           THEN exitCode = 1 /\ log = <<Event("exit", "", "1")>>
           ELSE /\ pc = "start"
                /\ ENABLED ProcStartExtensionsFail
                /\ ~ENABLED ProcStartLoop
                /\ ~ENABLED FetchNext

\* the process has ended with code 1 because the OnInit of the second
\* extension failed, when the first was registered and had got an event
C21_Witness ==
    /\ exited /\ exitCode = 1
    /\ Len(extensions) = 2
    /\ startErr = "extension init failed"
    /\ startLog[Len(startLog)].k = 2
    /\ StartIdx("register") = {2}
    /\ events > 0

----------------------------------------------------------------------------
(* C22: every extension is registered at most once; when the main loop sends
   its first GET .../next, start() has returned and every extension has been
   registered; and once start() has returned no register call is made any
   more, whatever happens to the event loops. *)
C22_RegisteredOnceBeforeLoop ==
    /\ [](/\ \A k \in Exts : Cardinality(Registrations(k)) <= 1
          /\ ~NothingFetched =>
                 /\ mgrpc \notin {"start", "startFailed"}
                 /\ \A k \in Exts :
                        \E i \in Registrations(k) : startLog[i].err = "nil")
    /\ [][mgrpc # "start" => startLog' = startLog]_vars

\* an invocation is being fetched; both extensions were registered, and the
\* event loop of the first has ended on a failed fetch
C22_Witness ==
    /\ pc = "next"
    /\ Len(extensions) = 2
    /\ loop[1] = "exited" /\ logged = LogLine(1, "extension event loop error")
    /\ loop[2] = "select"
    /\ Cardinality(StartIdx("register")) = 2

----------------------------------------------------------------------------
(* C23: the body of the registration request of an extension names the
   INVOKE event exactly when the extension has an OnInvoke; for an extension
   without OnInvoke the body subscribes to nothing (its events are null, as
   json.Marshal writes the nil slice).  The request is sent to the register
   URL, with the extension's name. *)
C23_RegistersInvokeIffHook ==
    \A i \in StartIdx("register") :
        LET r == startLog[i]
        IN  /\ Contains(r.body, "\"" \o eventTypeInvoke \o "\"") <=> extensions[r.k].OnInvoke
            /\ extensions[r.k].OnInvoke => r.body = "{\"events\":[\"INVOKE\"]}"
            /\ ~extensions[r.k].OnInvoke => r.body = "{\"events\":null}"
            /\ r.url = "http://127.0.0.1:9001/2020-01-01/extension/register"
            /\ r.name = Name(r.k)

\* two extensions are registered, the first without OnInvoke, the second
\* with one
C23_Witness ==
    /\ mgrpc = "running"
    /\ Len(extensions) = 2
    /\ ~extensions[1].OnInvoke /\ extensions[2].OnInvoke
    /\ Cardinality(StartIdx("register")) = 2
    /\ \A i \in StartIdx("register") : startLog[i].err = "nil"

----------------------------------------------------------------------------
(* Reading the event loops *)

\* resultCh of event loop k holds an INVOKE event
HoldsInvoke(k) ==
    resultCh[k].err = "nil" /\ resultCh[k].payload.eventType = eventTypeInvoke

\* resultCh of event loop k holds an event of another type
HoldsUnknown(k) ==
    resultCh[k].err = "nil" /\ resultCh[k].payload.eventType # eventTypeInvoke

\* resultCh of event loop k holds the error of a failed fetch
HoldsError(k) == resultCh[k] # NoResult /\ resultCh[k].err # "nil"

\* the step takes what resultCh of event loop k holds
Taken(k) == resultCh[k] # NoResult /\ resultCh'[k] = NoResult

\* the event loops with an OnInvoke
WithOnInvoke == {k \in Exts : extensions[k].OnInvoke}

\* the context the claim wants for the OnInvoke of an event
ContextFor(payload) ==
    [hasDeadline |-> payload.deadlineMs > 0,
     deadline    |-> IF payload.deadlineMs > 0 THEN payload.deadlineMs ELSE 0]

----------------------------------------------------------------------------
(* C24, as claimed: every INVOKE event fetched for an extension with an
   OnInvoke gets its call of the hook -- so no event loop returns and leaves
   such an event behind in resultCh. *)
C24_AsClaimed ==
    \A k \in WithOnInvoke : loop[k] = "exited" => ~HoldsInvoke(k)

(* C24, amended: every INVOKE event the select of the event loop of an
   extension with an OnInvoke takes from resultCh gets exactly one call of
   the hook, with the event as payload and a context whose deadline is the
   event's deadlineMs if that is positive and that has no deadline if not;
   the hook is called for nothing else; and when it returns the loop starts
   its next fetch. *)
C24_InvokeHook ==
    /\ [](\A k \in Exts :
              loop[k] = "invoke" =>
                  /\ k \in WithOnInvoke
                  /\ onInvoke[k].eventPayload.eventType = eventTypeInvoke
                  /\ onInvoke[k].ctx = ContextFor(onInvoke[k].eventPayload)
                  /\ ~fetching[k] /\ resultCh[k] = NoResult)
    /\ [][\A k \in Exts :
              /\ Taken(k) /\ HoldsInvoke(k) /\ k \in WithOnInvoke =>
                     /\ loop[k] = "select" /\ loop'[k] = "invoke"
                     /\ onInvoke'[k] = [ctx |-> ContextFor(resultCh[k].payload),
                                        eventPayload |-> resultCh[k].payload]
              /\ loop[k] # "invoke" /\ loop'[k] = "invoke" =>
                     Taken(k) /\ HoldsInvoke(k) /\ k \in WithOnInvoke
              /\ loop[k] = "invoke" /\ loop'[k] = "invoke" => onInvoke'[k] = onInvoke[k]
              /\ loop[k] = "invoke" /\ loop'[k] # "invoke" =>
                     loop'[k] = "select" /\ fetching'[k] /\ onInvoke'[k] = NoCall
      ]_vars

\* the second event is an INVOKE with a deadline and its OnInvoke is running,
\* after done was closed
C24_Witness ==
    /\ events = 2
    /\ mdone
    /\ \E k \in WithOnInvoke :
           /\ loop[k] = "invoke"
           /\ onInvoke[k].ctx = WithDeadline(1609)
           /\ onInvoke[k].eventPayload.requestId = "req-1"

----------------------------------------------------------------------------
(* C25, as claimed: every event of another type than INVOKE is logged, and
   the event loop does not return but goes on to the next fetch -- so no
   event loop returns and leaves such an event behind in resultCh. *)
C25_AsClaimed ==
    \A k \in Exts : loop[k] = "exited" => ~HoldsUnknown(k)

(* C25, amended: when the select of an event loop takes an event of another
   type than INVOKE, the event is logged as of unknown type, under the name
   of the extension; no hook is called, of that extension or of another; the
   event loop does not return but goes round and starts its next fetch. *)
C25_UnknownIgnored ==
    [][\A k \in Exts :
           Taken(k) /\ HoldsUnknown(k) =>
               /\ logged' = LogLine(k, "extension received unknown event type")
               /\ loop[k] = "select" /\ loop'[k] = "select"
               /\ fetching'[k]
               /\ onInvoke' = onInvoke /\ onInvoke'[k] = NoCall
               /\ hookCalls' = hookCalls /\ onSIGTERM' = onSIGTERM
               /\ mgrpc' = mgrpc /\ mdone' = mdone
      ]_vars

\* an extension with an OnInvoke got an event of unknown type, which was
\* logged, and then an INVOKE event, for which its OnInvoke is running
C25_Witness ==
    /\ events = 2
    /\ \E k \in WithOnInvoke :
           /\ logged = LogLine(k, "extension received unknown event type")
           /\ loop[k] = "invoke"

----------------------------------------------------------------------------
(* C26: when the fetch of an event loop fails -- no answer, a status other
   than 200, a body that cannot be decoded -- the error is logged and that
   event loop returns, and nothing else happens: the process does not end,
   the other event loops, the manager and the main loop are where they were.
   An event loop returns only on its own failed fetch or on done.  And the
   main loop, whatever has become of the event loops, goes on to its next
   fetch when it is at its select and done is not closed. *)
C26_FetchFailureEndsOneLoop ==
    /\ [][\A k \in Exts :
              /\ Taken(k) /\ HoldsError(k) =>
                     /\ loop'[k] = "exited"
                     /\ logged' = LogLine(k, "extension event loop error")
                     /\ \A j \in Exts \ {k} :
                            /\ loop'[j] = loop[j]
                            /\ fetching'[j] = fetching[j]
                            /\ resultCh'[j] = resultCh[j]
                     /\ ~exited' /\ exitCode' = exitCode
                     /\ mainVars' = mainVars
                     /\ managerVars' = managerVars
              /\ loop[k] # "exited" /\ loop'[k] = "exited" =>
                     mdone \/ (Taken(k) /\ HoldsError(k))
      ]_vars
    /\ [](~exited /\ pc = "select" /\ ~done /\ passes < MaxPasses => ENABLED FetchNext)

\* the fetch of the first event loop has failed; the second event loop has
\* since got an INVOKE event and the main loop is handling an invocation
C26_Witness ==
    /\ Len(extensions) = 2
    /\ loop[1] = "exited" /\ ~mdone
    /\ loop[2] = "invoke"
    /\ pc = "handler"
    /\ ~exited

----------------------------------------------------------------------------
(* C27, as claimed: no event the Extensions API has returned is lost -- so no
   event loop returns and leaves an event, of whatever type, behind in
   resultCh. *)
C27_AsClaimed ==
    \A k \in Exts :
        loop[k] = "exited" => resultCh[k] = NoResult \/ resultCh[k].err # "nil"

(* C27, amended: what is in resultCh of an event loop is the answer to a
   fetch sent with the identifier of that loop's extension; it is never
   overwritten; it leaves resultCh only when the select of that loop takes
   it, and then that loop alone acts on it (the other loops and their hooks
   are where they were) and it is gone, so that it is handled at most once.
   It is handled exactly once unless done is closed before the select has
   taken it: then it may stay in resultCh for ever. *)
C27_ConsumedByItsLoop ==
    /\ [](\A k \in Exts :
              /\ resultCh[k] # NoResult => resultCh[k].id = Identifier(k)
              /\ loop[k] = "exited" /\ resultCh[k] # NoResult /\ resultCh[k].err = "nil" => mdone
              /\ fetching[k] => resultCh[k] = NoResult)
    /\ [][\A k \in Exts :
              /\ resultCh[k] # NoResult /\ resultCh'[k] # resultCh[k] => Taken(k)
              /\ Taken(k) =>
                     /\ loop[k] = "select"
                     /\ \A j \in Exts \ {k} :
                            /\ loop'[j] = loop[j]
                            /\ onInvoke'[j] = onInvoke[j]
                            /\ resultCh'[j] = resultCh[j]
                     /\ HoldsInvoke(k) /\ k \in WithOnInvoke =>
                            onInvoke'[k].eventPayload = resultCh[k].payload
      ]_vars

\* two extensions with an OnInvoke have each got an INVOKE event, and the
\* OnInvoke of each is running
C27_Witness ==
    /\ Len(extensions) = 2
    /\ events = 2
    /\ \A k \in Exts : loop[k] = "invoke" /\ onInvoke[k].eventPayload.requestId = "req-1"

----------------------------------------------------------------------------
(* C28: the process ends with code 0 only when there are extensions,
   SIGTERM was received, extMgr.shutdown() has returned (every event loop
   with it), done was closed and the main loop, at its select, has
   returned, its last pass, if any, having returned nil.  With no
   runtime API address, with an error of extMgr.start(), with a fetch that
   is not answered 200, with a report that is not answered 202 and with a
   handler that has panicked, the process has ended with code 1 as soon as
   Start has the error in hand.  An ended process stays as it is. *)
C28_ExitCodes ==
    /\ [](/\ exited /\ exitCode = 0 =>
                 /\ options.extensions > 0 /\ Len(extensions) > 0
                 /\ sigpc = "closed" /\ done
                 /\ mgrpc = "returned" /\ mdone
                 /\ \A k \in Exts : loop[k] = "exited"
                 /\ StartFailures = {} /\ runtimeAPI # ""
                 /\ Count("nextfail") = 0
                 /\ \A i \in Idx : log[i].e = "ack" => log[i].info = "ok"
                 /\ \A i \in Idx : log[i].e = "return" => log[i].info = "nil"
                 /\ outcome.how # "panic"
          /\ runtimeAPI = "" /\ pc # "start" => exited /\ exitCode = 1
          /\ StartFailures # {} /\ pc # "start" => exited /\ exitCode = 1
          /\ Count("nextfail") > 0 => exited /\ exitCode = 1
          /\ (\E i \in Idx : log[i].e = "ack" /\ log[i].info = "failed") =>
                 exited /\ exitCode = 1
          /\ outcome.how = "panic" /\ LastReturned => exited /\ exitCode = 1
          /\ (\E i \in Idx : log[i].e = "return" /\ log[i].info # "nil") =>
                 exited /\ exitCode = 1)
    /\ [][exited => exited' /\ exitCode' = exitCode]_vars

\* the process has ended with code 0: an invocation was handled, SIGTERM
\* came, the hooks of two extensions were called and the event loops returned
C28_Witness ==
    /\ exited /\ exitCode = 0
    /\ passes > 0
    /\ Len(extensions) = 2
    /\ \A k \in Exts : hookCalls[k] = 1

----------------------------------------------------------------------------
(* The runtime client: status codes and the invocation it returns *)

\* the last call of the client was next()
CalledNext == resp.method = "GET"

\* the last call of the client was success() or failure(), which sent post
CalledPost == resp.method = "POST" /\ post # NoPost

\* C29: next() fails for every response whose status is not 200 and returns
\* no invocation then; success() and failure() fail for every response whose
\* status is not 202 and succeed for 202.
C29_StatusDecides ==
    /\ CalledNext /\ resp.status # StatusOK
           => ~returned.ok /\ returned.inv = NoInvocation /\ inv = NoInvocation
    /\ CalledPost => (returned.ok <=> resp.status = StatusAccepted)

\* a failure report was answered 204, another 2xx status, and failure()
\* returned an error
C29_Witness ==
    /\ CalledPost
    /\ post = failure(inv, "not json")
    /\ resp.status = 204
    /\ ~returned.ok

\* C30: for a 200 response to GET .../next, the invocation next() returns has
\* the request id of the request-id header, each header of the response
\* (deadline, trace id, Cognito identity, client context, function ARN)
\* unchanged, and the body of the response as its payload.
C30_InvocationIsTheResponse ==
    CalledNext /\ resp.status = StatusOK /\ returned.ok
        => /\ returned.inv.requestID = resp.headers.requestId
           /\ returned.inv.headers.deadlineMs = resp.headers.deadlineMs
           /\ returned.inv.headers.traceId = resp.headers.traceId
           /\ returned.inv.headers.cognitoIdentity = resp.headers.cognitoIdentity
           /\ returned.inv.headers.clientContext = resp.headers.clientContext
           /\ returned.inv.headers.functionArn = resp.headers.functionArn
           /\ returned.inv.payload = resp.body

\* next() has returned the invocation of a 200 response that had every
\* header and a body
C30_Witness ==
    /\ CalledNext /\ resp.status = StatusOK /\ returned.ok
    /\ returned.inv = inv
    /\ inv.requestID = "req-2"
    /\ inv.headers.deadlineMs # ""
    /\ inv.headers.traceId # ""
    /\ inv.headers.cognitoIdentity # ""
    /\ inv.headers.clientContext # ""
    /\ inv.headers.functionArn # ""
    /\ inv.payload \in ValidPayloads

----------------------------------------------------------------------------
(* The error records: classification *)

\* the name of the dynamic type of a value, or of the type it points to
TypeNameOf(v) == IF v.ptr THEN v.elem ELSE v.name

\* a call of getErrorType or newErrorResponse has been made
ErrorClassified == made.fn \in {"getErrorType", "newErrorResponse"}

\* newErrorResponse has made a record
ErrorRecordMade == made.fn = "newErrorResponse" /\ ~made.panicked

\* C31 as stated: errorString and names with "wrap" give Runtime.HandlerError,
\* every other failure Runtime.<TypeName>, and a failure without type
\* information Runtime.Unknown (a type without a name is let pass under
\* either reading); the record has the failure's message and no stack frame.
C31_AsClaimed ==
    LET n == TypeNameOf(made.of)
    IN  /\ ErrorClassified =>
              IF made.of = NilValue
              THEN made.tag = "Runtime.Unknown"
              ELSE IF n = "errorString" \/ Contains(n, "wrap")
                   THEN made.tag = "Runtime.HandlerError"
                   ELSE IF n = ""
                        THEN made.tag \in {"Runtime.Unknown", "Runtime."}
                        ELSE made.tag = "Runtime." \o n
        /\ ErrorRecordMade =>
              /\ errResp.Type = made.tag
              /\ errResp.Message = made.of.msg
              /\ errResp.StackTrace = <<>>

\* C31, amended: a failure whose type is named errorString or errors, has
\* "wrap" in its name, or has no name at all (an anonymous type or a pointer
\* to one) is tagged Runtime.HandlerError; a failure of any other type is
\* tagged Runtime.<TypeName>; only the nil failure is tagged Runtime.Unknown.
\* The record of a failure has that tag, the failure's message and no stack
\* frame.
C31_Classification ==
    LET n == TypeNameOf(made.of)
    IN  /\ ErrorClassified =>
              IF made.of = NilValue
              THEN made.tag = "Runtime.Unknown"
              ELSE IF n \in {"errorString", "errors", ""} \/ Contains(n, "wrap")
                   THEN made.tag = "Runtime.HandlerError"
                   ELSE made.tag = "Runtime." \o n
        /\ ErrorRecordMade =>
              /\ errResp.Type = made.tag
              /\ errResp.Message = made.of.msg
              /\ errResp.StackTrace = <<>>

\* the record of an error of an anonymous type has been made: it is tagged
\* Runtime.HandlerError
C31_Witness ==
    /\ ErrorRecordMade
    /\ made.of # NilValue /\ TypeNameOf(made.of) = ""
    /\ errResp.Type = "Runtime.HandlerError"
    /\ errResp.Message = "boom"

\* newPanicResponse has made a record
PanicRecordMade == made.fn = "newPanicResponse"

\* the %T text of a value after its last dot
ShortTypeText(v) == SubSeq(v.tstr, LastDot(v.tstr) + 1, Len(v.tstr))

\* C32 as stated: a panic value of a named type is tagged
\* Runtime.Panic.<TypeName>, nil and a value of an anonymous type
\* Runtime.Panic; the message is the formatted value and there is at least
\* one stack frame.
C32_AsClaimed ==
    PanicRecordMade =>
        /\ errResp.Type = IF made.of = NilValue \/ TypeNameOf(made.of) = ""
                          THEN "Runtime.Panic"
                          ELSE "Runtime.Panic." \o TypeNameOf(made.of)
        /\ errResp.Message = made.of.msg
        /\ errResp.StackTrace # <<>>

\* C32, amended: a panic value of a named type (or a pointer to one) is
\* tagged Runtime.Panic.<TypeName>; a value of a type without a name is
\* tagged Runtime.Panic.<T>, T being the text of its type after the last
\* dot; only the nil value is tagged Runtime.Panic.  The message is the
\* formatted value and there is at least one stack frame.
C32_PanicClassification ==
    PanicRecordMade =>
        /\ errResp.Type = IF made.of = NilValue
                          THEN "Runtime.Panic"
                          ELSE IF TypeNameOf(made.of) # ""
                               THEN "Runtime.Panic." \o TypeNameOf(made.of)
                               ELSE "Runtime.Panic." \o ShortTypeText(made.of)
        /\ errResp.Message = made.of.msg
        /\ errResp.StackTrace # <<>>

\* the record of a panic with a slice, a value of an anonymous type whose
\* element type is in a package, has been made
C32_Witness ==
    /\ PanicRecordMade
    /\ made.of.tstr = "[]main.Item"
    /\ errResp.Type = "Runtime.Panic.Item"
    /\ errResp.Message = "oh no!"
    /\ Len(errResp.StackTrace) = MaxStack

----------------------------------------------------------------------------
(* The event loops: one event at a time *)

\* the fetch of event loop k is started in this step
FetchStarted(k) == ~fetching[k] /\ fetching'[k]

\* C33: an event loop handles its events one at a time.  While it runs it
\* has at most one fetch that is outstanding or answered and not yet taken;
\* while it is in OnInvoke, in one call of it, it has none; and a fetch is
\* started only by a step that leaves the loop in its select with no call of
\* OnInvoke going on and no result waiting.
C33_OneEventAtATime ==
    /\ [](\A k \in Exts :
            /\ loop[k] = "select" => ~(fetching[k] /\ resultCh[k] # NoResult)
            /\ loop[k] = "invoke" =>
                   /\ ~fetching[k] /\ resultCh[k] = NoResult
                   /\ onInvoke[k] # NoCall
            /\ loop[k] # "invoke" => onInvoke[k] = NoCall)
    /\ [][\A k \in Exts :
             FetchStarted(k) =>
                 /\ loop'[k] = "select"
                 /\ onInvoke'[k] = NoCall
                 /\ resultCh'[k] = NoResult]_vars

\* the only extension is in OnInvoke for its second event: the fetch of that
\* event was started when the first call of OnInvoke had returned
C33_Witness ==
    /\ Len(extensions) = 1
    /\ loop[1] = "invoke"
    /\ events = MaxEvents
    /\ ~fetching[1]

----------------------------------------------------------------------------
(* The hooks of one extension *)

\* the extensions whose OnSIGTERM is running while their event loop is in
\* OnInvoke
BothHooksRunning == {k \in Exts : onSIGTERM[k] = "running" /\ loop[k] = "invoke"}

\* the event loop of extension k goes into OnInvoke in this step
InvokeStarted(k) == loop[k] # "invoke" /\ loop'[k] = "invoke"

\* C34: the OnSIGTERM of an extension never runs while the event loop of the
\* same extension is in OnInvoke, and the loop goes into no OnInvoke while
\* the OnSIGTERM runs.
C34_HooksNotConcurrent ==
    /\ [](BothHooksRunning = {})
    /\ [][\A k \in Exts : onSIGTERM[k] = "running" => ~InvokeStarted(k)]_vars

\* shutdown() has called the OnSIGTERM of an extension whose event loop is in
\* OnInvoke: both hooks of the extension are running
C34_BothRunning ==
    \E k \in BothHooksRunning : hookCalls[k] = 1 /\ onInvoke[k] # NoCall

----------------------------------------------------------------------------
(* The fetch goroutine and resultCh *)

\* a result is sent to resultCh of event loop k in this step
Sent(k) == resultCh'[k] # NoResult /\ resultCh'[k] # resultCh[k]

\* the fetch goroutine of event loop k can do its send now
CanSend(k) == ENABLED (\E res \in EventResults : EventArrives(k, res))

\* C35: each fetch ends in exactly one send to resultCh, and the send never
\* blocks: while a fetch is outstanding resultCh is empty and, whatever the
\* loop is doing or has done, the send can be made (as long as the
\* Extensions API answers at all, which the model bounds by MaxEvents).  A
\* loop that has returned stays so: a result sent afterwards stays in
\* resultCh, is never taken and leads to no call of OnInvoke.
C35_SendNeverBlocks ==
    /\ [](\A k \in Exts :
            fetching[k] => /\ resultCh[k] = NoResult
                           /\ events < MaxEvents => CanSend(k))
    /\ [][\A k \in Exts :
             /\ Sent(k) => fetching[k] /\ ~fetching'[k]
             /\ fetching[k] /\ ~fetching'[k] => Sent(k)
             /\ loop[k] = "exited" =>
                    /\ loop'[k] = "exited"
                    /\ onInvoke'[k] = NoCall
                    /\ resultCh[k] # NoResult => resultCh'[k] = resultCh[k]]_vars

\* an event loop has returned on done, with no error logged, and the INVOKE
\* event of its fetch lies in resultCh; no call of OnInvoke is going on
C35_Witness ==
    \E k \in WithOnInvoke :
        /\ mdone /\ loop[k] = "exited"
        /\ logged.msg = ""
        /\ HoldsInvoke(k)
        /\ onInvoke[k] = NoCall

----------------------------------------------------------------------------
(* The exit code after SIGTERM *)

\* the SIGTERM goroutine of Start has received the signal
SigtermReceived == sigpc \in {"shutdown", "closed"}

\* the process ends in this step
Exits == ~exited /\ exited'

\* C36 as stated: once SIGTERM has been received by a process with
\* extensions, the process does not end with code 1.
C36_AsClaimed ==
    [][SigtermReceived /\ Exits => exitCode' = 0]_vars

\* C36, amended: once SIGTERM has been received the process can still end
\* with code 1, and does so only when a pass of the main loop returns an
\* error (a fetch that failed, a report that was not accepted, a handler that
\* panicked), whatever shutdown() is doing at that moment; it ends with code
\* 0 only when shutdown() has returned, done is closed and the main loop is
\* at its select.
C36_ExitAfterSigterm ==
    [][SigtermReceived /\ Exits =>
           IF exitCode' = 1
           THEN /\ pc \in {"next", "success", "failure"}
                /\ log'[Len(log') - 1].e = "return"
                /\ log'[Len(log') - 1].info # "nil"
                /\ log'[Len(log')] = Event("exit", "", "1")
           ELSE /\ exitCode' = 0
                /\ pc = "select" /\ done
                /\ mgrpc = "returned"]_vars

\* the process has ended with code 1 after SIGTERM, while a OnSIGTERM hook
\* was running and an event loop had not returned
C36_Witness ==
    /\ exited /\ exitCode = 1
    /\ sigpc = "shutdown" /\ mgrpc = "hooks"
    /\ \E k \in Exts : onSIGTERM[k] = "running"
    /\ \E k \in Exts : loop[k] # "exited"

----------------------------------------------------------------------------
(* The main loop once done is closed *)

\* the main loop sends a GET .../next in this step
FetchIssued == passes' # passes \/ (pc # "next" /\ pc' = "next")

\* C37 as stated: once shutdown() has returned and done is closed, no fetch
\* is issued, and the process ends only by Start returning, when the pass in
\* flight, if any, is over.
C37_AsClaimed ==
    /\ [](done => sigpc = "closed" /\ mgrpc = "returned")
    /\ [][done => ~FetchIssued]_vars
    /\ [][done /\ Exits => exitCode' = 0 /\ pc = "select"]_vars

\* C37, amended: once shutdown() has returned and done is closed, no fetch is
\* issued; the pass in flight, if any, goes on to its end, report included;
\* if it returns an error the process exits with code 1, else the main loop
\* comes to its select, where all it can do is return from Start.
C37_NoPassAfterDone ==
    /\ [](done => sigpc = "closed" /\ mgrpc = "returned")
    /\ [][done => ~FetchIssued]_vars
    /\ [][done /\ Exits =>
            IF exitCode' = 0
            THEN pc = "select"
            ELSE /\ pc \in {"next", "success", "failure"}
                 /\ log'[Len(log') - 1].e = "return"
                 /\ log'[Len(log') - 1].info # "nil"]_vars
    /\ [](done /\ ~exited /\ pc = "select" =>
              ENABLED StartReturns /\ ~ENABLED FetchNext)

\* done was closed while the handler of an invocation was running
C37_Witness ==
    /\ done /\ ~exited
    /\ sigpc = "closed" /\ mgrpc = "returned"
    /\ pc = "handler" /\ active = 1
    /\ passes = 1

----------------------------------------------------------------------------
(* SIGTERM more than once *)

\* the entries e of shutdownLog
ShutdownSteps(e) == {i \in 1..Len(shutdownLog) : shutdownLog[i].e = e}

\* C38: however many SIGTERMs are delivered, shutdown() is called at most
\* once (it closes the manager's done once and returns once, and the
\* goroutine that calls it never waits for a signal again), the done of
\* Start is closed at most once, by the last step of that goroutine, and
\* the manager, once shutdown() has begun or has returned, never goes back.
C38_ShutdownOnce ==
    /\ [](/\ Cardinality(ShutdownSteps("done")) <= 1
          /\ Cardinality(ShutdownSteps("return")) <= 1
          /\ \A k \in Exts : hookCalls[k] <= 1)
    /\ [][/\ sigpc \in {"shutdown", "closed"} => sigpc' # "waiting"
          /\ sigpc = "closed" => sigpc' = "closed"
          /\ mdone => mdone'
          /\ done => done'
          /\ ~done /\ done' => sigpc = "shutdown" /\ sigpc' = "closed"
          /\ mgrpc = "hooks" => mgrpc' \in {"hooks", "returned"}
          /\ mgrpc = "returned" => mgrpc' = "returned"]_vars

\* two SIGTERMs have been delivered; shutdown() has run once, with its hooks,
\* and done is closed
C38_Witness ==
    /\ signals = MaxSignals /\ signals > 1
    /\ sigpc = "closed" /\ done /\ mdone
    /\ mgrpc = "returned"
    /\ Cardinality(ShutdownSteps("done")) = 1
    /\ \E k \in Exts : hookCalls[k] = 1

----------------------------------------------------------------------------
(* The event loops when start() fails *)

\* the extension at which start() failed
FailedAt == startLog[Len(startLog)].k

\* C39 as stated: when start() has returned an error, no event loop has been
\* started, for any extension.
C39_AsClaimed ==
    StartFailures # {} => \A k \in Exts : loop[k] = "none"

\* C39, amended: when start() has returned an error, no event loop has been
\* started for the extension whose OnInit or registration failed nor for any
\* extension after it; the event loop of every extension before it has been
\* started, and start() does not stop it.
C39_LoopsWhenStartFails ==
    StartFailures # {} =>
        /\ mgrpc = "startFailed"
        /\ \A k \in Exts : k >= FailedAt => loop[k] = "none"
        /\ \A k \in Exts : k < FailedAt => loop[k] # "none"

\* start() has returned the error of the second extension's registration,
\* the process has not ended yet, and the event loop of the first extension
\* is in OnInvoke
C39_Witness ==
    /\ StartFailures # {} /\ ~exited
    /\ startErr = "failed to register extension"
    /\ FailedAt = 2
    /\ loop[1] = "invoke"

----------------------------------------------------------------------------
(* The trace slot and the metadata *)

\* the step in which handleInvocation gets an invocation whose metadata
\* (deadline, identity, client context) cannot be used
BadMetadataFetched == pc = "next" /\ given'.metadata = "invalid"

\* C40 as stated: a pass that fails at the deadline, the identity or the
\* client context leaves the trace slot as it was.
C40_AsClaimed ==
    [][BadMetadataFetched => traceEnv' = traceEnv]_vars

\* C40, amended: the trace slot is written before the deadline is derived
\* and the context put together: a pass that fails at the deadline, the
\* identity or the client context has, with trace propagation enabled and a
\* trace token in the metadata, put that token in the slot; it leaves the
\* slot as it was only with trace propagation disabled or without token.
C40_TraceBeforeMetadata ==
    [][BadMetadataFetched =>
           /\ pc' = "failure"
           /\ traceEnv' = IF options.enableTraceID /\ given'.trace # ""
                          THEN given'.trace
                          ELSE traceEnv]_vars

\* the first pass has failed at its metadata and is reporting that, and the
\* trace token of its invocation is in the slot
C40_Witness ==
    /\ passes = 1 /\ pc = "failure"
    /\ given.metadata = "invalid"
    /\ options.enableTraceID
    /\ given.trace # ""
    /\ traceEnv = given.trace

====
